---- MODULE Spec2Model ----
(***************************************************************************)
(* A model of rfc_reader: the table-of-contents extractor                  *)
(* (src/ui/toc_panel.rs), the search, scroll and selection state of App    *)
(* (src/ui/app.rs), run_app and the loading of the document in main        *)
(* (src/main.rs), the event pump (src/ui/event.rs) and the cache           *)
(* (src/cache.rs).  Durations are in milliseconds.                         *)
(*                                                                         *)
(* Text is a sequence of one-character strings.  A document is one flat    *)
(* text containing "\n"; it is split into lines the way str::lines() does. *)
(* Byte offsets are 0-based as in the source, sequence positions 1-based.  *)
(***************************************************************************)
EXTENDS Integers, Sequences, FiniteSets, TLC

VARIABLES
    rfc_content,                \* App.rfc_content
    rfc_line_number,            \* App.rfc_line_number
    entries,                    \* App.rfc_toc_panel.entries
    selected,                   \* App.rfc_toc_panel.state.selected()
    current_scroll_pos,         \* App.current_scroll_pos
    mode,                       \* App.mode
    app_state,                  \* App.app_state (set of flags)
    query_text,                 \* App.query_text
    query_match_line_nums,      \* App.query_match_line_nums
    current_query_match_index,  \* App.current_query_match_index
    query_matches,              \* App.query_matches
    constructed,                \* whether App::new has run
    heuristic_ran,              \* whether parse_toc evaluated its fallback
    panicked,                   \* the thread has panicked (index out of bounds)
    run_app_result,             \* run_app: not called, in its loop, or returned
    pump_pc,                    \* the pump thread's position in its loop
    cycle,                      \* the number of the pump's poll cycle
    event_chan,                 \* the events sent and not yet received
    sent_count,                 \* how many events the pump has sent
    delivered,                  \* the last event EventHandler::next returned
    shutdown_chan,              \* the shutdown signals sent and not yet received
    tick_rate,                  \* the tick_rate the pump thread was spawned with (ms)
    timeout,                    \* the timeout of the pump's latest event::poll (ms)
    last_tick_elapsed,          \* what last_tick.elapsed() reads in the pump (ms)
    cycle_sent,                 \* the types of the events sent in this poll cycle
    after_signal,               \* polls begun and events sent since the shutdown signal
    handler,                    \* the EventHandler: none, alive, joining, dropped
    cache_dir_exists,           \* RfcCache.cache_dir is a directory on disk
    cache_dir,                  \* what the cache directory holds, by file name
    clear_pc,                   \* RfcCache::clear: its position, then its result
    clear_entries,              \* RfcCache::clear: the entries still to visit
    main_pc,                    \* main's position while loading, then its result
    offline,                    \* main: the --offline flag
    main_log,                   \* what main has done so far, in order
    cache_text,                 \* the text in the cache file of main's RFC
    run_app_pc,                 \* run_app's position in its loop: draw or next
    toc_scan,                   \* extract_toc_entries: the locals of its loop
    last_op                     \* the operation that produced this state

vars == <<rfc_content, rfc_line_number, entries, selected, current_scroll_pos,
          mode, app_state, query_text, query_match_line_nums,
          current_query_match_index, query_matches, constructed,
          heuristic_ran, panicked, run_app_result, pump_pc, cycle, event_chan,
          sent_count, delivered, shutdown_chan, tick_rate, timeout,
          last_tick_elapsed, cycle_sent, after_signal, handler,
          cache_dir_exists, cache_dir, clear_pc, clear_entries, main_pc, offline,
          main_log, cache_text, run_app_pc, toc_scan, last_op>>

(***************************************************************************)
(* Bounds of the model.                                                    *)
(***************************************************************************)
\* longest enumerated document of the App specification, in lines
MaxLines == 2
\* longest enumerated document of the loading specification, in lines
MaxTocLines == 4
\* longest query text that add_search_char may build
MaxQueryLen == 2
\* width in bits of the modelled machine word (usize)
UsizeBits == 8
\* how far past the last entry TocPanel::next is followed
MaxOvershoot == 2
\* how many poll cycles the pump thread is followed for
MaxCycles == 3
\* how far around MAX_POLL_WAIT and main's tick rate the tick rates are taken
MaxDuration == 2
\* how many names the cache directory may hold
MaxNames == 2
\* lines in a run of blank or text lines after the contents header
MaxRun == 300

UsizeMax == (2 ^ UsizeBits) - 1

\* Option::None of an Option<usize>
NONE == -1

Min(S) == CHOOSE x \in S : \A y \in S : x <= y
Max(S) == CHOOSE x \in S : \A y \in S : x >= y

(***************************************************************************)
(* Characters.                                                             *)
(***************************************************************************)
Digits == {"0", "1", "2", "3", "4", "5", "6", "7", "8", "9"}
Whitespace == {" ", "\t"}
UpperSeq == <<"A", "B", "C", "D", "E", "F", "G", "H", "I", "J", "K", "L", "M",
              "N", "O", "P", "Q", "R", "S", "T", "U", "V", "W", "X", "Y", "Z">>
LowerSeq == <<"a", "b", "c", "d", "e", "f", "g", "h", "i", "j", "k", "l", "m",
              "n", "o", "p", "q", "r", "s", "t", "u", "v", "w", "x", "y", "z">>
Upper == {UpperSeq[i] : i \in 1..26}
Lower == {LowerSeq[i] : i \in 1..26}
\* \w of the regex crate, restricted to ASCII
WordChars == Upper \cup Lower \cup Digits \cup {"_"}
\* the characters regex::escape puts a backslash in front of
MetaChars == {"\\", ".", "+", "*", "?", "(", ")", "|", "[", "]", "{", "}",
              "^", "$", "#", "&", "-", "~"}

to_uppercase_char(c) ==
    IF c \in Lower THEN UpperSeq[CHOOSE i \in 1..26 : LowerSeq[i] = c] ELSE c

to_lowercase_char(c) ==
    IF c \in Upper THEN LowerSeq[CHOOSE i \in 1..26 : UpperSeq[i] = c] ELSE c

to_uppercase(s) == [i \in 1..Len(s) |-> to_uppercase_char(s[i])]

(***************************************************************************)
(* Text helpers.                                                           *)
(***************************************************************************)
\* the smallest element of stops, or dflt when there is none
FirstOr(stops, dflt) == IF stops = {} THEN dflt ELSE Min(stops)

\* first position >= i of s that holds a character outside cls (past the end
\* if none): the end of a greedy run of cls starting at i
RunEnd(s, i, cls) ==
    FirstOr({j \in i..Len(s) : s[j] \notin cls}, Max({Len(s) + 1, i}))

\* s from position i to its end
Suffix(s, i) == SubSeq(s, i, Len(s))

\* the literal lit occurs in s at position i
LiteralAt(s, i, lit) ==
    /\ i + Len(lit) - 1 <= Len(s)
    /\ \A k \in 1..Len(lit) : s[i + k - 1] = lit[k]

RECURSIVE trim_end(_)
trim_end(s) ==
    IF s # <<>> /\ s[Len(s)] \in Whitespace
    THEN trim_end(SubSeq(s, 1, Len(s) - 1))
    ELSE s

trim_start(s) == Suffix(s, RunEnd(s, 1, Whitespace))

trim(s) == trim_start(trim_end(s))

\* str::lines(): pieces between "\n", a "\r" before the "\n" removed, and no
\* empty piece after the last "\n"
RECURSIVE LinesFrom(_, _, _)
LinesFrom(s, i, cur) ==
    IF i > Len(s)
    THEN IF cur = <<>> THEN <<>> ELSE <<cur>>
    ELSE IF s[i] = "\n"
         THEN <<IF cur # <<>> /\ cur[Len(cur)] = "\r"
                THEN SubSeq(cur, 1, Len(cur) - 1) ELSE cur>>
              \o LinesFrom(s, i + 1, <<>>)
         ELSE LinesFrom(s, i + 1, Append(cur, s[i]))

Lines(content) == LinesFrom(content, 1, <<>>)

\* the text left as it is, meta characters unescaped
regex_escape_unescaped(s) == s

\* regex::escape: a backslash in front of every meta character
RECURSIVE regex_escape(_)
regex_escape(s) ==
    IF s = <<>> THEN <<>>
    ELSE (IF s[1] \in MetaChars THEN <<"\\", s[1]>> ELSE <<s[1]>>)
         \o regex_escape(Tail(s))

\* Regex::new on a pattern of literals: an escaped character is that literal,
\* an unescaped "." is any character
RECURSIVE regex_compile(_)
regex_compile(p) ==
    IF p = <<>> THEN <<>>
    ELSE IF p[1] = "\\" /\ Len(p) >= 2
         THEN <<[kind |-> "lit", ch |-> p[2]]>> \o regex_compile(SubSeq(p, 3, Len(p)))
         ELSE IF p[1] = "."
              THEN <<[kind |-> "any", ch |-> "."]>> \o regex_compile(Tail(p))
              ELSE <<[kind |-> "lit", ch |-> p[1]]>> \o regex_compile(Tail(p))

\* the compiled tokens toks match s at position i; ci = case-insensitive
TokensAt(s, i, toks, ci) ==
    /\ i + Len(toks) - 1 <= Len(s)
    /\ \A k \in 1..Len(toks) :
          \/ toks[k].kind = "any"
          \/ IF ci
             THEN to_lowercase_char(s[i + k - 1]) = to_lowercase_char(toks[k].ch)
             ELSE s[i + k - 1] = toks[k].ch

(***************************************************************************)
(* Table-of-contents extraction (toc_panel.rs, mod parsing).               *)
(***************************************************************************)
STR_Contents == <<"C", "o", "n", "t", "e", "n", "t", "s">>
STR_Table_of_Contents == <<"T", "a", "b", "l", "e", " ", "o", "f", " ">> \o STR_Contents
STR_TABLE_OF_CONTENTS ==
    <<"T", "A", "B", "L", "E", " ", "O", "F", " ", "C", "O", "N", "T", "E", "N", "T", "S">>
STR_Appendix == <<"A", "p", "p", "e", "n", "d", "i", "x">>

\* limit on consecutive_empty_lines in should_stop_parsing
MaxConsecutiveEmptyLines == 5
\* limit on lines_without_entries in should_stop_parsing
MaxLinesWithoutEntries == 30
\* largest value of the u8 counters
U8Max == 255

\* \d+\.?\s+Table of Contents matches the whole of t
NumberedHeader(t) ==
    \E d \in 2..Len(t) : \E q \in {d, d + 1} : \E w \in (q + 1)..Len(t) :
        /\ \A k \in 1..(d - 1) : t[k] \in Digits
        /\ q = d + 1 => t[d] = "."
        /\ \A k \in q..(w - 1) : t[k] \in Whitespace
        /\ Suffix(t, w) = STR_Table_of_Contents

\* ^(Table of Contents|Contents|TABLE OF CONTENTS|\d+\.?\s+Table of Contents)$
TOC_HEADER_REGEX(t) ==
    \/ t = STR_Table_of_Contents
    \/ t = STR_Contents
    \/ t = STR_TABLE_OF_CONTENTS
    \/ NumberedHeader(t)

\* \.{2,}\s*\d+ matches the whole of r
IsDotsPage(r) ==
    \E d \in 3..Len(r) : \E sp \in d..Len(r) :
        /\ \A k \in 1..(d - 1) : r[k] = "."
        /\ \A k \in d..(sp - 1) : r[k] \in Whitespace
        /\ \A k \in sp..Len(r) : r[k] \in Digits

\* the capture of (.*?) in (.*?)(?:\.{2,}\s*\d+)?$ : the shortest prefix of r
\* after which only a dotted page number, or nothing, is left
LazyTitle(r) ==
    SubSeq(r, 1, Min({k \in 0..Len(r) :
                        k = Len(r) \/ IsDotsPage(Suffix(r, k + 1))}))

NoCaptures == [ok |-> FALSE, num |-> <<>>, title |-> <<>>]

\* the tail \s+(.*?)(?:\.{2,}\s*\d+)?$ of both entry patterns, for a first
\* group spanning positions i..q-1 and a whitespace run ending before w
CapturesAt(s, i, q, w) ==
    IF w > q
    THEN [ok |-> TRUE, num |-> SubSeq(s, i, q - 1), title |-> LazyTitle(Suffix(s, w))]
    ELSE NoCaptures

CapturesAfter(s, i, q) == CapturesAt(s, i, q, RunEnd(s, q, Whitespace))

\* the end of \.? at p
OptionalDot(s, p) == IF p <= Len(s) /\ s[p] = "." THEN p + 1 ELSE p

\* end of (?:\.\d+)* starting at p
RECURSIVE DottedEnd(_, _)
DottedStep(s, p, e) ==
    IF p <= Len(s) /\ s[p] = "." /\ e > p + 1 THEN DottedEnd(s, e) ELSE p

DottedEnd(s, p) == DottedStep(s, p, RunEnd(s, p + 1, Digits))

\* \d+(?:\.\d+)*\.? from i, where the digits \d+ end before d
SectionNumberAt(s, i, d) ==
    IF d > i THEN CapturesAfter(s, i, OptionalDot(s, DottedEnd(s, d))) ELSE NoCaptures

SectionNumberFrom(s, i) == SectionNumberAt(s, i, RunEnd(s, i, Digits))

\* TOC_ENTRY_PATTERNS[0]: ^\s*(\d+(?:\.\d+)*\.?)\s+(.*?)(?:\.{2,}\s*\d+)?$
TOC_ENTRY_PATTERN_0(s) == SectionNumberFrom(s, RunEnd(s, 1, Whitespace))

\* Appendix\s+[A-Z]\.? from i, where the letter is at l
AppendixAt(s, i, l) ==
    IF /\ LiteralAt(s, i, STR_Appendix)
       /\ l > i + Len(STR_Appendix)
       /\ l <= Len(s)
       /\ s[l] \in Upper
    THEN CapturesAfter(s, i, OptionalDot(s, l + 1))
    ELSE NoCaptures

AppendixFrom(s, i) == AppendixAt(s, i, RunEnd(s, i + Len(STR_Appendix), Whitespace))

\* TOC_ENTRY_PATTERNS[1]: ^\s*(Appendix\s+[A-Z]\.?)\s+(.*?)(?:\.{2,}\s*\d+)?$
TOC_ENTRY_PATTERN_1(s) == AppendixFrom(s, RunEnd(s, 1, Whitespace))

\* SECTION_HEADING_REGEX: ^\d+\.\s+\w+
SECTION_HEADING_REGEX(s) ==
    \E d \in 2..Len(s) : \E w \in (d + 2)..Len(s) :
        /\ \A k \in 1..(d - 1) : s[k] \in Digits
        /\ s[d] = "."
        /\ \A k \in (d + 1)..(w - 1) : s[k] \in Whitespace
        /\ s[w] \in WordChars

\* the compiled number tn at i, whitespace, then the compiled title tt
SectionMatchAt(doc_line, i, tn, tt) ==
    /\ TokensAt(doc_line, i, tn, FALSE)
    /\ \E w \in (i + Len(tn) + 1)..RunEnd(doc_line, i + Len(tn), Whitespace) :
          TokensAt(doc_line, w, tt, FALSE)

\* the locator ^\s*{escape(section_num)}\s+{escape(title)} matches doc_line
section_regex_is_match(section_num, title, doc_line) ==
    SectionMatchAt(doc_line, RunEnd(doc_line, 1, Whitespace),
                   regex_compile(regex_escape(section_num)),
                   regex_compile(regex_escape(title)))

NoEntry == [found |-> FALSE, title |-> <<>>, line_number |-> 0]

\* the entry for the first of the matching lines, numbered from 1
FirstHit_one_based(hits, title) ==
    IF hits = {} THEN NoEntry
    ELSE [found |-> TRUE, title |-> title, line_number |-> Min(hits) + 1]

\* the entry for the first of the matching lines hits, if any
FirstHit(hits, title) ==
    IF hits = {} THEN NoEntry
    ELSE [found |-> TRUE, title |-> title, line_number |-> Min(hits)]

\* the lines the search looks at, from the candidate's own line on
LinesAfter_from_own(lines, index) == index..(Len(lines) - 1)

\* lines.enumerate().skip(index + 1): the lines the search looks at
LinesAfter(lines, index) == (index + 1)..(Len(lines) - 1)

\* the search of try_extract_entry: the first line after index that matches the
\* locator of the trimmed number and title
LocateTrimmed(section_num, title, lines, index) ==
    FirstHit({n \in LinesAfter(lines, index) :
                 section_regex_is_match(section_num, title, lines[n + 1])},
             section_num \o <<" ">> \o title)

LocateSection(caps, lines, index) ==
    LocateTrimmed(trim(caps.num), trim(caps.title), lines, index)

\* the pattern loop of try_extract_entry over the captures of both patterns:
\* the first pattern that matches decides
TryPatterns(caps0, caps1, lines, index) ==
    IF caps0.ok THEN LocateSection(caps0, lines, index)
    ELSE IF caps1.ok THEN LocateSection(caps1, lines, index)
         ELSE NoEntry

try_extract_entry(trimmed_line, lines, index) ==
    TryPatterns(TOC_ENTRY_PATTERN_0(trimmed_line), TOC_ENTRY_PATTERN_1(trimmed_line),
                lines, index)

\* x += 1 on a u8: the value a release build leaves, and whether it overflowed
U8Inc(x) == [val |-> (x + 1) % (U8Max + 1), overflow |-> x + 1 > U8Max]

NoInc == [val |-> 0, overflow |-> FALSE]

\* the run of empty lines has to be longer still
EmptyRunStops_one_late(count) == count > MaxConsecutiveEmptyLines

\* *consecutive_empty_lines >= 5
EmptyRunStops(count) == count >= MaxConsecutiveEmptyLines

\* the count has only to reach the limit
TooManyLines_at_limit(count) == count >= MaxLinesWithoutEntries

\* *lines_without_entries > 30
TooManyLines(count) == count > MaxLinesWithoutEntries

\* the scan goes on however many lines had no entry
NoEntryLimit_never(has_found_entries, count) == FALSE

\* the third check: no entry found yet and the count beyond its limit
NoEntryLimit(has_found_entries, count) == ~has_found_entries /\ TooManyLines(count)

\* the three checks of should_stop_parsing, given the two regex results and the
\* counters e and l as the second and third check leave them
StopDecision(is_empty, has_found_entries, cel, lwe, looks, matching, e, l) ==
    IF looks /\ ~matching /\ has_found_entries
    THEN [stop |-> TRUE, cel |-> cel, lwe |-> lwe, overflow |-> FALSE]
    ELSE IF is_empty /\ EmptyRunStops(e.val) /\ has_found_entries
         THEN [stop |-> TRUE, cel |-> e.val, lwe |-> lwe, overflow |-> e.overflow]
         ELSE [stop |-> NoEntryLimit(has_found_entries, l.val),
               cel |-> e.val, lwe |-> l.val, overflow |-> e.overflow \/ l.overflow]

\* should_stop_parsing with its two counters passed in and returned
should_stop_parsing(trimmed_line, has_found_entries, consecutive_empty_lines, lines_without_entries) ==
    StopDecision(trimmed_line = <<>>, has_found_entries,
                 consecutive_empty_lines, lines_without_entries,
                 SECTION_HEADING_REGEX(trimmed_line),
                 TOC_ENTRY_PATTERN_0(trimmed_line).ok \/ TOC_ENTRY_PATTERN_1(trimmed_line).ok,
                 IF trimmed_line = <<>> THEN U8Inc(consecutive_empty_lines) ELSE NoInc,
                 IF has_found_entries THEN NoInc ELSE U8Inc(lines_without_entries))

\* the loop of extract_toc_entries from line index on
RECURSIVE ExtractFrom(_, _, _, _, _, _, _)
\* one iteration: st is the result of should_stop_parsing, entry of
\* try_extract_entry
ExtractStep(lines, index, acc, found, ovf, st, entry) ==
    IF st.stop THEN [entries |-> acc, overflow |-> ovf \/ st.overflow]
    ELSE ExtractFrom(lines, index + 1,
                     IF entry.found
                     THEN Append(acc, [title |-> entry.title,
                                       line_number |-> entry.line_number])
                     ELSE acc,
                     st.cel, found \/ entry.found, st.lwe, ovf \/ st.overflow)

ExtractLine(lines, index, acc, cel, found, lwe, ovf, trimmed_line) ==
    ExtractStep(lines, index, acc, found, ovf,
                should_stop_parsing(trimmed_line, found, cel, lwe),
                try_extract_entry(trimmed_line, lines, index))

ExtractFrom(lines, index, acc, cel, found, lwe, ovf) ==
    IF index >= Len(lines) THEN [entries |-> acc, overflow |-> ovf]
    ELSE ExtractLine(lines, index, acc, cel, found, lwe, ovf,
                     trim_end(lines[index + 1]))

extract_toc_entries(lines, start_index) ==
    ExtractFrom(lines, start_index, <<>>, 0, FALSE, 0, FALSE)

find_toc_start(lines) ==
    FirstOr({index + 1 : index \in {n \in 0..(Len(lines) - 1) :
                                       TOC_HEADER_REGEX(trim(lines[n + 1]))}},
            NONE)

\* the None of Option<Vec<TocEntry>>
NoToc(overflow) == [some |-> FALSE, val |-> <<>>, overflow |-> overflow]

\* Some(entries) whatever the extraction found
SomeOrNone_keep_empty(ex) == [some |-> TRUE, val |-> ex.entries, overflow |-> ex.overflow]

\* the end of parse_toc_existing: None for an empty extraction
SomeOrNone(ex) ==
    IF ex.entries = <<>> THEN NoToc(ex.overflow)
    ELSE [some |-> TRUE, val |-> ex.entries, overflow |-> ex.overflow]

ExistingFrom(lines, start_index) ==
    IF start_index = NONE THEN NoToc(FALSE)
    ELSE SomeOrNone(extract_toc_entries(lines, start_index))

ExistingIn(lines) == ExistingFrom(lines, find_toc_start(lines))

\* Option<Vec<TocEntry>>: some = FALSE is None
parse_toc_existing(content) == ExistingIn(Lines(content))

\* line.splitn(2, '.')
splitn2(line) ==
    IF \A i \in 1..Len(line) : line[i] # "." THEN <<line>>
    ELSE <<SubSeq(line, 1, Min({i \in 1..Len(line) : line[i] = "."}) - 1),
           Suffix(line, Min({i \in 1..Len(line) : line[i] = "."}) + 1)>>

Contains(s, c) == \E i \in 1..Len(s) : s[i] = c

\* the numbered rule holds of the parts of a line
NumberedParts(parts) == Len(parts) = 2 /\ ~Contains(parts[1], " ")

\* the flag is left as it was
AfterNumbered_unchanged(section_pattern) == section_pattern

\* section_pattern = true
AfterNumbered(section_pattern) == TRUE

\* the entry is put in front of the others
entries_push_front(acc, entry) == <<entry>> \o acc

\* entries.push(TocEntry { .. })
entries_push(acc, entry) == Append(acc, entry)

\* the loop of parse_toc_heuristic from line line_number on
RECURSIVE HeuristicFrom(_, _, _, _)
HeuristicLine(lines, line_number, acc, section_pattern, line) ==
    IF line # <<>> /\ line[1] \in Digits /\ Contains(line, ".")
    THEN IF NumberedParts(splitn2(line))
         THEN HeuristicFrom(lines, line_number + 1,
                            entries_push(acc, [title |-> line,
                                               line_number |-> line_number]),
                            AfterNumbered(section_pattern))
         ELSE HeuristicFrom(lines, line_number + 1, acc, section_pattern)
    ELSE IF ~section_pattern /\ Len(line) > 3 /\ line = to_uppercase(line)
         THEN HeuristicFrom(lines, line_number + 1,
                            entries_push(acc, [title |-> line,
                                               line_number |-> line_number]),
                            section_pattern)
         ELSE HeuristicFrom(lines, line_number + 1, acc, section_pattern)

HeuristicFrom(lines, line_number, acc, section_pattern) ==
    IF line_number >= Len(lines) THEN acc
    ELSE HeuristicLine(lines, line_number, acc, section_pattern,
                       trim_end(lines[line_number + 1]))

parse_toc_heuristic(content) == HeuristicFrom(Lines(content), 0, <<>>, FALSE)

\* unwrap_or_else: the fallback closure runs only on None
UnwrapOrHeuristic(existing, content) ==
    IF existing.some
    THEN [entries |-> existing.val, heuristic_ran |-> FALSE,
          overflow |-> existing.overflow]
    ELSE [entries |-> parse_toc_heuristic(content), heuristic_ran |-> TRUE,
          overflow |-> existing.overflow]

parse_toc(content) == UnwrapOrHeuristic(parse_toc_existing(content), content)

(***************************************************************************)
(* Search and scroll arithmetic (app.rs).                                  *)
(***************************************************************************)
\* usize::saturating_sub
saturating_sub(a, b) == IF a - b < 0 THEN 0 ELSE a - b

\* usize::wrapping_add in the place of saturating_add
wrapping_add(a, b) == (a + b) % (UsizeMax + 1)

\* usize::saturating_add
saturating_add(a, b) == IF a + b > UsizeMax THEN UsizeMax ELSE a + b

\* scroll_down without the clamp to the last line
scroll_down_pos_unclamped(pos, amount, line_number) == saturating_add(pos, amount)

\* the position scroll_down leaves
scroll_down_pos(pos, amount, line_number) ==
    LET last_line_pos == saturating_sub(line_number, 1)
        sum == saturating_add(pos, amount)
    IN  IF sum < last_line_pos THEN sum ELSE last_line_pos

\* find_iter that resumes one character after the start of a match
RECURSIVE find_iter_overlapping(_, _, _)
find_iter_overlapping(line, i, toks) ==
    IF i + Len(toks) - 1 > Len(line) THEN <<>>
    ELSE IF TokensAt(line, i, toks, TRUE)
         THEN <<[start |-> i - 1, end |-> i - 1 + Len(toks)]>>
              \o find_iter_overlapping(line, i + 1, toks)
         ELSE find_iter_overlapping(line, i + 1, toks)

\* Regex::find_iter: the leftmost non-overlapping matches from position i on,
\* as byte ranges
RECURSIVE find_iter(_, _, _)
find_iter(line, i, toks) ==
    IF i + Len(toks) - 1 > Len(line) THEN <<>>
    ELSE IF TokensAt(line, i, toks, TRUE)
         THEN <<[start |-> i - 1, end |-> i - 1 + Len(toks)]>>
              \o find_iter(line, i + Len(toks), toks)
         ELSE find_iter(line, i + 1, toks)

\* sort_unstable_by_key(|span| span.start)
RECURSIVE sort_by_start(_)
sort_by_start(spans) ==
    IF spans = <<>> THEN <<>>
    ELSE LET m == CHOOSE i \in 1..Len(spans) :
                     \A j \in 1..Len(spans) :
                         spans[i].start < spans[j].start
                         \/ (spans[i].start = spans[j].start /\ i <= j)
         IN  <<spans[m]>>
             \o sort_by_start([k \in 1..(Len(spans) - 1) |->
                                  IF k < m THEN spans[k] ELSE spans[k + 1]])

\* the line loop of perform_search from line line_num on: one record per line
\* that has a match, in the order pushed to query_match_line_nums
RECURSIVE ScanFrom(_, _, _)
ScanFrom(lines, line_num, toks) ==
    IF line_num >= Len(lines) THEN <<>>
    ELSE LET matches_in_line == find_iter(lines[line_num + 1], 1, toks)
         IN  IF matches_in_line # <<>>
             THEN <<[line_num |-> line_num, spans |-> sort_by_start(matches_in_line)]>>
                  \o ScanFrom(lines, line_num + 1, toks)
             ELSE ScanFrom(lines, line_num + 1, toks)

\* the HashMap built by the inserts of a scan
MatchMap(scan) ==
    [ln \in {scan[i].line_num : i \in 1..Len(scan)} |->
        scan[Max({i \in 1..Len(scan) : scan[i].line_num = ln})].spans]

\* the first position whose line number is greater than pos
partition_point_after(nums, pos) == Cardinality({i \in 1..Len(nums) : nums[i] <= pos})

\* slice::partition_point(|&line_num| line_num < pos) on a sorted slice
partition_point(nums, pos) == Cardinality({i \in 1..Len(nums) : nums[i] < pos})

\* past the last line the search goes round to the first
position_after_wrapping(nums, pos) ==
    LET hits == {i \in 1..Len(nums) : nums[i] > pos}
    IN  IF hits = {} THEN (IF nums = <<>> THEN NONE ELSE 0) ELSE Min(hits) - 1

\* Iterator::position(|&line_num| line_num > pos)
position_after(nums, pos) ==
    LET hits == {i \in 1..Len(nums) : nums[i] > pos}
    IN  IF hits = {} THEN NONE ELSE Min(hits) - 1

\* Iterator::rposition(|&line_num| line_num < pos)
rposition_before(nums, pos) ==
    LET hits == {i \in 1..Len(nums) : nums[i] < pos}
    IN  IF hits = {} THEN NONE ELSE Max(hits) - 1

\* the position jump_to_search_result leaves
jump_to_search_result(nums, index, pos) ==
    IF index < Len(nums) THEN nums[index + 1] ELSE pos

\* slice::binary_search_by(|entry| entry.line_number.cmp(&line_num)).is_ok():
\* the halving loop of the standard library from base over size elements
RECURSIVE BinarySearchFrom(_, _, _, _)
BinarySearchFrom(toc, base, size, line_num) ==
    IF size > 1
    THEN BinarySearchFrom(toc,
                          IF toc[base + (size \div 2) + 1].line_number > line_num
                          THEN base ELSE base + (size \div 2),
                          size - (size \div 2), line_num)
    ELSE toc[base + 1].line_number = line_num

\* build_text: is_title of the line line_num
is_title(toc, line_num) == toc # <<>> /\ BinarySearchFrom(toc, 0, Len(toc), line_num)

has_search_results == query_text # <<>> /\ query_match_line_nums # <<>>

(***************************************************************************)
(* Documents and inputs.                                                   *)
(***************************************************************************)
\* the text whose lines are ls, every line ended by "\n"
RECURSIVE Join(_)
Join(ls) == IF ls = <<>> THEN <<>> ELSE ls[1] \o <<"\n">> \o Join(Tail(ls))

SeqsUpTo(S, n) == UNION {[1..k -> S] : k \in 0..n}

L_1a == <<"1", ".", "a">>
L_aAa == <<"a", "A", "a">>
L_b == <<"b">>
L_a == <<"a">>
L_blank == <<>>
L_1A == <<"1", ".", " ", "A">>
L_2B == <<"2", ".", " ", "B">>
L_1A_page == <<"1", ".", " ", "A", " ", ".", ".", "3">>
L_ABCD == <<"A", "B", "C", "D">>
L_1_A_dot == <<"1", " ", "A", ".">>
L_Appendix == STR_Appendix \o <<" ", "A", ".", " ", "X">>
L_1_Introduction == <<"1", ".", " ", "I", "n", "t", "r", "o", "d", "u", "c", "t", "i", "o", "n">>
L_1_Introduction_page == L_1_Introduction \o <<" ", ".", ".", ".", ".", ".", ".", ".", ".", ".", ".", " ", "3">>

AppVocab == {L_1a, L_aAa}
TocVocab == {STR_Contents, L_1A, L_2B, L_1A_page, L_blank, L_ABCD, L_1_A_dot, L_b}

\* a contents header, one entry with a page number, and its section
DocStructured == <<STR_Contents, L_1A_page, L_b, L_1A>>
\* the same outline over a body whose sections are in the other order
DocReordered == <<STR_Contents, L_1A, L_2B, L_2B, L_1A>>
\* an appendix entry, indented, and its section
DocAppendix == <<STR_Table_of_Contents, <<" ">> \o L_Appendix, L_blank, L_Appendix>>
\* the header on line 4, the outline entry on line 5, its section on line 40
DocIntroduction ==
    [i \in 1..41 |-> CASE i - 1 = 4 -> STR_Table_of_Contents
                        [] i - 1 = 5 -> L_1_Introduction_page
                        [] i - 1 = 40 -> L_1_Introduction
                        [] OTHER -> L_b]
\* an outline entry, n blank lines, a second outline entry, and the sections
DocBlankRun(n) ==
    <<STR_Contents, L_1A_page>> \o [i \in 1..n |-> L_blank] \o <<L_2B, L_b, L_1A, L_2B>>
\* n lines of text between the header and the first outline entry
DocLateEntry(n) ==
    <<STR_Contents>> \o [i \in 1..n |-> L_b] \o <<L_1A_page, L_b, L_1A>>
\* a second header, with an outline, beyond the lines the first one is given
DocSecondHeader ==
    <<STR_Contents>> \o [i \in 1..MaxLinesWithoutEntries |-> L_b]
    \o <<STR_Contents, L_1A_page, L_b, L_1A>>
\* two outline entries with more lines of text between them than the limit
DocLongOutline ==
    <<STR_Contents, L_1A_page>> \o [i \in 1..(MaxLinesWithoutEntries + 1) |-> L_b]
    \o <<L_2B, L_b, L_1A, L_2B>>
\* the header, lead further lines, perhaps an outline entry, and then a run of
\* MaxRun lines; line is the blank line or a line of text
DocRun(lead, with_entry, line) ==
    <<STR_Contents>> \o [i \in 1..lead |-> line]
    \o (IF with_entry THEN <<L_1A_page>> ELSE <<>>)
    \o [i \in 1..MaxRun |-> line]
DocRuns == {DocRun(lead, with_entry, line) :
                lead \in {0, MaxLinesWithoutEntries}, with_entry \in BOOLEAN,
                line \in {L_blank, L_b}}
\* match lines 3, 7 and 12 for the query "a"
DocMatches == [i \in 1..13 |-> IF i - 1 \in {3, 7, 12} THEN L_a ELSE L_b]

AppDocs == {Join(ls) : ls \in SeqsUpTo(AppVocab, MaxLines)}
           \cup {Join(DocStructured), Join(DocMatches)}

TocDocs == {Join(ls) : ls \in SeqsUpTo(TocVocab, MaxTocLines)}
           \cup {Join(DocStructured), Join(DocReordered), Join(DocAppendix),
                 Join(DocIntroduction)}
           \cup {Join(DocBlankRun(n)) : n \in 1..(MaxConsecutiveEmptyLines + 1)}
           \cup {Join(DocLateEntry(n)) :
                     n \in (MaxLinesWithoutEntries - 1)..(MaxLinesWithoutEntries + 1)}
           \cup {Join(DocSecondHeader), Join(DocLongOutline)}

QueryChars == {"a", "."}

\* amounts passed to scroll_up and scroll_down among the other operations
Amounts == {1, UsizeMax}
\* every amount a machine word holds
AllAmounts == 0..UsizeMax

\* the variable of run_app
event_vars == <<run_app_result>>

\* the variables of the EventHandler and its pump thread
pump_vars == <<pump_pc, cycle, event_chan, sent_count, delivered, shutdown_chan,
               tick_rate, timeout, last_tick_elapsed, cycle_sent, after_signal,
               handler>>

\* main's own state and the cache directory it works on
main_vars == <<cache_dir_exists, cache_dir, clear_pc, clear_entries, main_pc, offline,
               main_log, cache_text>>

\* nothing has happened since the shutdown signal was sent
NoneAfterSignal == [polls |-> 0, events |-> 0]

\* no event received yet
NoEvent == [type |-> "None", code |-> "", kind |-> "", seq |-> 0, cycle |-> 0]

\* EventHandler::new has not been called, and run_app will begin at the top
\* of its loop
NoEventHandler ==
    /\ run_app_pc = "draw"
    /\ pump_pc = "none"
    /\ cycle = 0
    /\ event_chan = <<>>
    /\ sent_count = 0
    /\ delivered = NoEvent
    /\ shutdown_chan = 0
    /\ tick_rate = 0
    /\ timeout = NONE
    /\ last_tick_elapsed = 0
    /\ cycle_sent = <<>>
    /\ after_signal = NoneAfterSignal
    /\ handler = "none"

\* run_app has not been called
NotStarted == run_app_result = "NotStarted"

Op(n, a, c) == [name |-> n, amount |-> a, ch |-> c]

(***************************************************************************)
(* Construction.                                                           *)
(***************************************************************************)
\* App::default() around the text that App::new is about to receive
Default(content) ==
    /\ rfc_content = content
    /\ rfc_line_number = 0
    /\ entries = <<>>
    /\ selected = NONE
    /\ current_scroll_pos = 0
    /\ mode = "Normal"
    /\ app_state = {"SHOULD_RUN"}
    /\ query_text = <<>>
    /\ query_match_line_nums = <<>>
    /\ current_query_match_index = 0
    /\ query_matches = <<>>
    /\ heuristic_ran = FALSE

\* the first entry is selected without looking at the entries
TocPanel_new_selected_first(parsed_entries) == 0

\* TocPanel::new: the selection for the parsed entries
TocPanel_new_selected(parsed_entries) ==
    IF parsed_entries # <<>> THEN 0 ELSE NONE

\* the fields App::new fills in from the parsed outline toc; a u8 counter that
\* overflowed in parse_toc either panicked or wrapped
ConstructedWith(content, toc) ==
    /\ rfc_content = content
    /\ rfc_line_number = Len(Lines(content))
    /\ entries = toc.entries
    /\ selected = TocPanel_new_selected(toc.entries)
    /\ heuristic_ran = toc.heuristic_ran
    /\ panicked \in (IF toc.overflow THEN {TRUE, FALSE} ELSE {FALSE})
    /\ current_scroll_pos = 0
    /\ mode = "Normal"
    /\ app_state = {"SHOULD_RUN"}
    /\ query_text = <<>>
    /\ query_match_line_nums = <<>>
    /\ current_query_match_index = 0
    /\ query_matches = <<>>

\* extract_toc_entries has not been called
NoScan ==
    [pc |-> "none", lines |-> <<>>, index |-> 0, entries |-> <<>>,
     consecutive_empty_lines |-> 0, has_found_entries |-> FALSE,
     lines_without_entries |-> 0, overflow |-> FALSE]

NotScanning == toc_scan = NoScan

\* extract_toc_entries(lines, start_index) before the first iteration of its
\* loop
ScanStart(lines, start_index) ==
    [pc |-> "loop", lines |-> lines, index |-> start_index, entries |-> <<>>,
     consecutive_empty_lines |-> 0, has_found_entries |-> FALSE,
     lines_without_entries |-> 0, overflow |-> FALSE]

\* the locals after an iteration in which should_stop_parsing returned st and
\* try_extract_entry returned entry; a u8 increment that overflowed either
\* panicked or wrapped
ScanAfter(s, st, entry, panics) ==
    [s EXCEPT !.pc = IF st.overflow /\ panics THEN "panicked"
                     ELSE IF st.stop THEN "done" ELSE "loop",
              !.index = IF st.stop THEN s.index ELSE s.index + 1,
              !.entries = IF ~st.stop /\ entry.found
                          THEN Append(s.entries, [title |-> entry.title,
                                                  line_number |-> entry.line_number])
                          ELSE s.entries,
              !.consecutive_empty_lines = st.cel,
              !.has_found_entries = s.has_found_entries \/ (~st.stop /\ entry.found),
              !.lines_without_entries = st.lwe,
              !.overflow = s.overflow \/ st.overflow]

\* the state App::new(rfc_number, content) returns
Constructed(content) == ConstructedWith(content, parse_toc(content))

AppNewWith(toc) ==
    /\ ~constructed
    /\ rfc_line_number' = Len(Lines(rfc_content))
    /\ entries' = toc.entries
    /\ selected' = TocPanel_new_selected(toc.entries)
    /\ heuristic_ran' = toc.heuristic_ran
    /\ panicked' \in (IF toc.overflow THEN {TRUE, FALSE} ELSE {FALSE})
    /\ constructed' = TRUE
    /\ last_op' = Op("new", 0, "")
    /\ UNCHANGED <<event_vars, rfc_content, current_scroll_pos, mode, app_state,
                   query_text, query_match_line_nums, current_query_match_index,
                   query_matches>>

\* App::new as a step
AppNew ==
    /\ AppNewWith(parse_toc(rfc_content))
    /\ UNCHANGED <<pump_vars, main_vars, toc_scan, run_app_pc>>

(***************************************************************************)
(* Operations of App and TocPanel.                                         *)
(***************************************************************************)
Live == constructed /\ ~panicked

toc_vars == <<entries, selected, heuristic_ran>>
doc_vars == <<rfc_content, rfc_line_number, constructed>>
search_vars == <<query_text, query_match_line_nums, current_query_match_index,
                 query_matches>>

scroll_up_by(amount, op) ==
    /\ Live
    /\ current_scroll_pos' = saturating_sub(current_scroll_pos, amount)
    /\ last_op' = op
    /\ UNCHANGED <<event_vars, doc_vars, toc_vars, search_vars, mode, app_state, panicked>>

scroll_up(amount) ==
    /\ scroll_up_by(amount, Op("scroll_up", amount, ""))
    /\ UNCHANGED <<pump_vars, main_vars, toc_scan, run_app_pc>>

scroll_down_by(amount, op) ==
    /\ Live
    /\ current_scroll_pos' = scroll_down_pos(current_scroll_pos, amount, rfc_line_number)
    /\ last_op' = op
    /\ UNCHANGED <<event_vars, doc_vars, toc_vars, search_vars, mode, app_state, panicked>>

scroll_down(amount) ==
    /\ scroll_down_by(amount, Op("scroll_down", amount, ""))
    /\ UNCHANGED <<pump_vars, main_vars, toc_scan, run_app_pc>>

\* TocPanel::selected_line: the line of the selection, NONE, or a panic when
\* the selection indexes past the entries
TocPanel_selected_line ==
    IF entries = <<>> \/ selected = NONE THEN [panic |-> FALSE, line |-> NONE]
    ELSE IF selected >= Len(entries) THEN [panic |-> TRUE, line |-> NONE]
         ELSE [panic |-> FALSE, line |-> entries[selected + 1].line_number]

jump_to_toc_entry_by(op) ==
    /\ Live
    /\ panicked' = TocPanel_selected_line.panic
    /\ current_scroll_pos' = IF TocPanel_selected_line.line # NONE
                             THEN TocPanel_selected_line.line
                             ELSE current_scroll_pos
    /\ last_op' = op
    /\ UNCHANGED <<event_vars, doc_vars, toc_vars, search_vars, mode, app_state>>

jump_to_toc_entry ==
    /\ jump_to_toc_entry_by(Op("jump_to_toc_entry", 0, ""))
    /\ UNCHANGED <<pump_vars, main_vars, toc_scan, run_app_pc>>

\* the selection TocPanel::next leaves
TocPanel_next_selected(i) == saturating_add(i, 1)

TocPanel_next_by(op) ==
    /\ Live
    /\ selected < Len(entries) - 1 + MaxOvershoot
    /\ selected' = IF selected # NONE THEN TocPanel_next_selected(selected) ELSE selected
    /\ last_op' = op
    /\ UNCHANGED <<event_vars, doc_vars, entries, heuristic_ran, search_vars, current_scroll_pos,
                   mode, app_state, panicked>>

TocPanel_next ==
    /\ TocPanel_next_by(Op("next", 0, ""))
    /\ UNCHANGED <<pump_vars, main_vars, toc_scan, run_app_pc>>

TocPanel_previous_by(op) ==
    /\ Live
    /\ selected' = IF selected # NONE THEN saturating_sub(selected, 1) ELSE selected
    /\ last_op' = op
    /\ UNCHANGED <<event_vars, doc_vars, entries, heuristic_ran, search_vars, current_scroll_pos,
                   mode, app_state, panicked>>

TocPanel_previous ==
    /\ TocPanel_previous_by(Op("previous", 0, ""))
    /\ UNCHANGED <<pump_vars, main_vars, toc_scan, run_app_pc>>

toggle_help_by(op) ==
    /\ Live
    /\ mode' = IF mode = "Help" THEN "Normal" ELSE "Help"
    /\ last_op' = op
    /\ UNCHANGED <<event_vars, doc_vars, toc_vars, search_vars, current_scroll_pos, app_state,
                   panicked>>

toggle_help ==
    /\ toggle_help_by(Op("toggle_help", 0, ""))
    /\ UNCHANGED <<pump_vars, main_vars, toc_scan, run_app_pc>>

toggle_toc_by(op) ==
    /\ Live
    /\ app_state' = IF "SHOW_TOC" \in app_state THEN app_state \ {"SHOW_TOC"}
                    ELSE app_state \cup {"SHOW_TOC"}
    /\ last_op' = op
    /\ UNCHANGED <<event_vars, doc_vars, toc_vars, search_vars, current_scroll_pos,
                   mode, panicked>>

toggle_toc ==
    /\ toggle_toc_by(Op("toggle_toc", 0, ""))
    /\ UNCHANGED <<pump_vars, main_vars, toc_scan, run_app_pc>>

enter_search_mode_by(op) ==
    /\ Live
    /\ mode' = "Search"
    /\ query_text' = <<>>
    /\ last_op' = op
    /\ UNCHANGED <<event_vars, doc_vars, toc_vars, query_match_line_nums, current_query_match_index,
                   query_matches, current_scroll_pos, app_state, panicked>>

enter_search_mode ==
    /\ enter_search_mode_by(Op("enter_search_mode", 0, ""))
    /\ UNCHANGED <<pump_vars, main_vars, toc_scan, run_app_pc>>

exit_search_mode_by(op) ==
    /\ Live
    /\ mode' = "Normal"
    /\ last_op' = op
    /\ UNCHANGED <<event_vars, doc_vars, toc_vars, search_vars, current_scroll_pos, app_state,
                   panicked>>

exit_search_mode ==
    /\ exit_search_mode_by(Op("exit_search_mode", 0, ""))
    /\ UNCHANGED <<pump_vars, main_vars, toc_scan, run_app_pc>>

add_search_char_by(ch, op) ==
    /\ Live
    /\ Len(query_text) < MaxQueryLen
    /\ query_text' = Append(query_text, ch)
    /\ last_op' = op
    /\ UNCHANGED <<event_vars, doc_vars, toc_vars, query_match_line_nums, current_query_match_index,
                   query_matches, current_scroll_pos, mode, app_state, panicked>>

add_search_char(ch) ==
    /\ add_search_char_by(ch, Op("add_search_char", 0, ch))
    /\ UNCHANGED <<pump_vars, main_vars, toc_scan, run_app_pc>>

remove_search_char_by(op) ==
    /\ Live
    /\ query_text' = IF query_text = <<>> THEN <<>>
                     ELSE SubSeq(query_text, 1, Len(query_text) - 1)
    /\ last_op' = op
    /\ UNCHANGED <<event_vars, doc_vars, toc_vars, query_match_line_nums, current_query_match_index,
                   query_matches, current_scroll_pos, mode, app_state, panicked>>

remove_search_char ==
    /\ remove_search_char_by(Op("remove_search_char", 0, ""))
    /\ UNCHANGED <<pump_vars, main_vars, toc_scan, run_app_pc>>

\* the search fields, the flag and the viewport as perform_search leaves them
\* the flag is raised and never lowered
search_flags_sticky(flags, found) == IF found THEN flags ELSE flags \cup {"HAS_NO_RESULTS"}

\* perform_search: HAS_NO_RESULTS is inserted when no line matched and
\* removed when one did
search_flags(flags, found) ==
    IF found THEN flags \ {"HAS_NO_RESULTS"} ELSE flags \cup {"HAS_NO_RESULTS"}

perform_search_fields ==
    LET scan == IF query_text = <<>> THEN <<>>
                ELSE ScanFrom(Lines(rfc_content), 0,
                              regex_compile(regex_escape(query_text)))
        nums == [i \in 1..Len(scan) |-> scan[i].line_num]
        index == partition_point(nums, current_scroll_pos)
    IN  /\ query_match_line_nums' = nums
        /\ query_matches' = MatchMap(scan)
        /\ IF query_text = <<>>
           THEN UNCHANGED <<app_state, current_query_match_index, current_scroll_pos>>
           ELSE IF nums = <<>>
                THEN /\ app_state' = search_flags(app_state, FALSE)
                     /\ UNCHANGED <<current_query_match_index, current_scroll_pos>>
                ELSE /\ app_state' = search_flags(app_state, TRUE)
                     /\ current_query_match_index' = index
                     /\ current_scroll_pos' =
                            jump_to_search_result(nums, index, current_scroll_pos)

perform_search_by(op) ==
    /\ Live
    /\ perform_search_fields
    /\ last_op' = op
    /\ UNCHANGED <<event_vars, doc_vars, toc_vars, query_text, mode, panicked>>

\* perform_search; the amount of its record tells a run that directly
\* follows another run (1) from a first one (0)
perform_search ==
    /\ perform_search_by(Op("perform_search",
                            IF last_op.name = "perform_search" THEN 1 ELSE 0, ""))
    /\ UNCHANGED <<pump_vars, main_vars, toc_scan, run_app_pc>>

next_search_result_by(op) ==
    /\ Live
    /\ LET next_index == position_after(query_match_line_nums, current_scroll_pos)
       IN  IF has_search_results /\ next_index # NONE
           THEN /\ current_query_match_index' = next_index
                /\ current_scroll_pos' =
                       jump_to_search_result(query_match_line_nums, next_index,
                                             current_scroll_pos)
           ELSE UNCHANGED <<current_query_match_index, current_scroll_pos>>
    /\ last_op' = op
    /\ UNCHANGED <<event_vars, doc_vars, toc_vars, query_text, query_match_line_nums,
                   query_matches, mode, app_state, panicked>>

\* how many calls of next_search_result in a row have moved, this one counted
NextRun(moves) ==
    (IF last_op.name = "next_search_result" THEN last_op.amount ELSE 0)
    + (IF moves THEN 1 ELSE 0)

\* next_search_result; its record counts the calls in a row that moved and
\* marks a call that changed nothing
next_search_result_run(moves) ==
    next_search_result_by(Op("next_search_result", NextRun(moves),
                             IF moves THEN "" ELSE "fixed"))

next_search_result ==
    /\ next_search_result_run(
           /\ has_search_results
           /\ position_after(query_match_line_nums, current_scroll_pos) # NONE)
    /\ UNCHANGED <<pump_vars, main_vars, toc_scan, run_app_pc>>

prev_search_result_by(op) ==
    /\ Live
    /\ LET prev_index == rposition_before(query_match_line_nums, current_scroll_pos)
       IN  IF has_search_results /\ prev_index # NONE
           THEN /\ current_query_match_index' = prev_index
                /\ current_scroll_pos' =
                       jump_to_search_result(query_match_line_nums, prev_index,
                                             current_scroll_pos)
           ELSE UNCHANGED <<current_query_match_index, current_scroll_pos>>
    /\ last_op' = op
    /\ UNCHANGED <<event_vars, doc_vars, toc_vars, query_text, query_match_line_nums,
                   query_matches, mode, app_state, panicked>>

prev_search_result ==
    /\ prev_search_result_by(Op("prev_search_result", 0, ""))
    /\ UNCHANGED <<pump_vars, main_vars, toc_scan, run_app_pc>>

reset_search_highlights_by(op) ==
    /\ Live
    /\ query_text' = <<>>
    /\ query_match_line_nums' = <<>>
    /\ query_matches' = <<>>
    /\ current_query_match_index' = 0
    /\ app_state' = app_state \ {"HAS_NO_RESULTS"}
    /\ last_op' = op
    /\ UNCHANGED <<event_vars, doc_vars, toc_vars, current_scroll_pos, mode, panicked>>

\* the reset that forgets to rewind current_query_match_index
reset_search_highlights_keep_index ==
    /\ Live
    /\ query_text' = <<>>
    /\ query_match_line_nums' = <<>>
    /\ query_matches' = <<>>
    /\ app_state' = app_state \ {"HAS_NO_RESULTS"}
    /\ last_op' = Op("reset_search_highlights", 0, "")
    /\ UNCHANGED <<pump_vars, main_vars, toc_scan, run_app_pc, event_vars, doc_vars, toc_vars,
                   current_query_match_index, current_scroll_pos, mode, panicked>>

reset_search_highlights ==
    /\ reset_search_highlights_by(Op("reset_search_highlights", 0, ""))
    /\ UNCHANGED <<pump_vars, main_vars, toc_scan, run_app_pc>>

(***************************************************************************)
(* run_app: one iteration of the loop per event (main.rs).                 *)
(***************************************************************************)
\* key codes that are characters
CharKeys == {"q", "?", "t", "j", "k", "f", "b", "g", "G", "/", "n", "N", "w", "s",
             "a", "."}
\* the other key codes; Ctrl-c and Ctrl-r are the characters c and r with the
\* CONTROL modifier, Tab stands for a key without a binding
NamedKeys == {"Down", "Up", "PageDown", "PageUp", "Enter", "Esc", "Backspace",
              "Delete", "Left", "Right", "Home", "End", "Ctrl-c", "Ctrl-r", "Tab"}
Keys == CharKeys \cup NamedKeys
\* the characters typed while in Search mode
TypedChars == {"?", "/", "t"}

\* terminal.size()?.height
TerminalHeights == {2}

Running == run_app_result = "Running" /\ "SHOULD_RUN" \in app_state

\* an arm that changes nothing: the arm  _ => {}, and an event that is not a
\* key press
ignore_by(op) ==
    /\ Live
    /\ last_op' = op
    /\ UNCHANGED <<event_vars, doc_vars, toc_vars, search_vars, current_scroll_pos,
                   mode, app_state, panicked>>

\* (Normal, 'q'): app_state.remove(SHOULD_RUN)
quit_by(op) ==
    /\ Live
    /\ app_state' = app_state \ {"SHOULD_RUN"}
    /\ last_op' = op
    /\ UNCHANGED <<event_vars, doc_vars, toc_vars, search_vars, current_scroll_pos,
                   mode, panicked>>

\* (Search, Enter): perform_search, which leaves the mode, then
\* exit_search_mode, which sets nothing but the mode
submit_search_by(op) ==
    /\ Live
    /\ perform_search_fields
    /\ mode' = "Normal"
    /\ last_op' = op
    /\ UNCHANGED <<event_vars, doc_vars, toc_vars, query_text, panicked>>

\* delete_search_char: a character leaves the query text, or none does
delete_search_char_by(op) ==
    /\ Live
    /\ query_text' \in {query_text} \cup
           {SubSeq(query_text, 1, i - 1) \o SubSeq(query_text, i + 1, Len(query_text)) :
               i \in 1..Len(query_text)}
    /\ last_op' = op
    /\ UNCHANGED <<event_vars, doc_vars, toc_vars, query_match_line_nums,
                   current_query_match_index, query_matches, current_scroll_pos,
                   mode, app_state, panicked>>

\* move_search_cursor_left, _right, _home, _end
move_search_cursor_by(op) == ignore_by(op)

\* toggle_case_sensitivity, toggle_regex_mode
toggle_search_option_by(op) == ignore_by(op)

NormalKey(key, op) ==
    CASE key = "q" -> quit_by(op)
      [] key = "?" -> toggle_help_by(op)
      [] key = "t" -> toggle_toc_by(op)
      [] key \in {"j", "Down"} -> scroll_down_by(1, op)
      [] key \in {"k", "Up"} -> scroll_up_by(1, op)
      [] key \in {"f", "PageDown"} ->
             \E height \in TerminalHeights : scroll_down_by(height, op)
      [] key \in {"b", "PageUp"} ->
             \E height \in TerminalHeights : scroll_up_by(height, op)
      [] key = "g" -> scroll_up_by(rfc_line_number, op)
      [] key = "G" -> scroll_down_by(rfc_line_number, op)
      [] key = "/" -> enter_search_mode_by(op)
      [] key = "n" -> next_search_result_by(op)
      [] key = "N" -> prev_search_result_by(op)
      [] key = "Esc" -> reset_search_highlights_by(op)
      [] key = "w" /\ "SHOW_TOC" \in app_state -> TocPanel_previous_by(op)
      [] key = "s" /\ "SHOW_TOC" \in app_state -> TocPanel_next_by(op)
      [] key = "Enter" /\ "SHOW_TOC" \in app_state -> jump_to_toc_entry_by(op)
      [] OTHER -> ignore_by(op)

\* the Help arm that also takes '/' to the search prompt
HelpKey_slash(key, op) ==
    IF key \in {"?", "Esc"} THEN toggle_help_by(op)
    ELSE IF key = "/" THEN enter_search_mode_by(op) ELSE ignore_by(op)

\* the Help arm when 'q' quits in every mode
HelpKey_quit(key, op) ==
    IF key \in {"?", "Esc"} THEN toggle_help_by(op)
    ELSE IF key = "q" THEN quit_by(op) ELSE ignore_by(op)

HelpKey(key, op) ==
    IF key \in {"?", "Esc"} THEN toggle_help_by(op) ELSE ignore_by(op)

SearchKey(key, op) ==
    CASE key = "Enter" -> submit_search_by(op)
      [] key = "Esc" -> exit_search_mode_by(op)
      [] key = "Backspace" -> remove_search_char_by(op)
      [] key = "Delete" -> delete_search_char_by(op)
      [] key \in {"Left", "Right", "Home", "End"} -> move_search_cursor_by(op)
      [] key \in {"Ctrl-c", "Ctrl-r"} -> toggle_search_option_by(op)
      [] key \in CharKeys -> add_search_char_by(key, op)
      [] OTHER -> ignore_by(op)

\* the match on (app.mode, key.code)
KeyArm(key, op) ==
    CASE mode = "Normal" -> NormalKey(key, op)
      [] mode = "Help" -> HelpKey(key, op)
      [] mode = "Search" -> SearchKey(key, op)

\* the selection as List's stateful rendering leaves it: none for an empty
\* list, the last item for a selection past the end
render_selected(i, len) ==
    IF len = 0 THEN NONE ELSE IF i # NONE /\ i >= len THEN len - 1 ELSE i

\* the top of run_app's loop with SHOULD_RUN set:
\* terminal.draw(|frame| app.render(frame)); with the outline panel shown
\* TocPanel::render passes its state to the list; every other drawing leaves
\* the App as it is
run_app_draw ==
    /\ Live
    /\ Running
    /\ run_app_pc = "draw"
    /\ run_app_pc' = "next"
    /\ selected' = IF "SHOW_TOC" \in app_state
                   THEN render_selected(selected, Len(entries))
                   ELSE selected
    /\ last_op' = Op("draw", 0, "")
    /\ UNCHANGED <<pump_vars, main_vars, toc_scan, event_vars, doc_vars, entries, heuristic_ran,
                   search_vars, current_scroll_pos, mode, app_state, panicked>>

\* the rest of an iteration of run_app's loop, next() having returned a press
\* of key
run_app_key(key) ==
    /\ Running
    /\ run_app_pc = "next"
    /\ run_app_pc' = "draw"
    /\ KeyArm(key, Op("key", 0, key))
    /\ UNCHANGED <<pump_vars, main_vars, toc_scan>>

\* the rest of an iteration, next() having returned a tick, a resize or a key
\* release
run_app_other_event ==
    /\ Running
    /\ run_app_pc = "next"
    /\ run_app_pc' = "draw"
    /\ ignore_by(Op("event", 0, ""))
    /\ UNCHANGED <<pump_vars, main_vars, toc_scan>>

\* the loop condition fails: run_app returns Ok(())
run_app_return_step ==
    /\ Live
    /\ run_app_result = "Running"
    /\ run_app_pc = "draw"
    /\ "SHOULD_RUN" \notin app_state
    /\ run_app_result' = "Ok"
    /\ last_op' = Op("return", 0, "")
    /\ UNCHANGED <<doc_vars, toc_vars, search_vars, current_scroll_pos, mode,
                   app_state, panicked>>

run_app_return ==
    /\ run_app_return_step
    /\ UNCHANGED <<pump_vars, main_vars, toc_scan, run_app_pc>>

\* terminal.draw or terminal.size fails: run_app returns the error
run_app_io_error_step ==
    /\ Live
    /\ Running
    /\ run_app_result' = "Err"
    /\ last_op' = Op("return", 0, "")
    /\ UNCHANGED <<doc_vars, toc_vars, search_vars, current_scroll_pos, mode,
                   app_state, panicked>>

run_app_io_error ==
    /\ run_app_io_error_step
    /\ UNCHANGED <<pump_vars, main_vars, toc_scan, run_app_pc>>

(***************************************************************************)
(* EventHandler and its pump thread (event.rs), and run_app receiving from *)
(* it (main.rs).                                                           *)
(***************************************************************************)
\* the key events the terminal produces: code and kind
PumpKeys == {<<"q", "Press">>, <<"j", "Press">>, <<"j", "Release">>}

\* EventHandler::MAX_POLL_WAIT, in milliseconds
MAX_POLL_WAIT == 50

\* the tick rate main passes to EventHandler::new, in milliseconds
TickRate == 200

\* the tick rates the pump is spawned with, in milliseconds:
\* the short ones, and those next to MAX_POLL_WAIT and to main's tick rate
Durations ==
    (0..MaxDuration)
    \cup {MAX_POLL_WAIT + d : d \in (0 - MaxDuration)..MaxDuration}
    \cup {TickRate + d : d \in (0 - MaxDuration)..MaxDuration}

\* how long an event::poll call takes while main's pump is followed
PumpWaits == {0, TickRate}

\* how long the pump thread waits to be scheduled before it reads its clock
PollDelays == {0, 1}

\* how long an event::poll call takes while the pump is followed alone
PollWaits == {0, MAX_POLL_WAIT, TickRate - MAX_POLL_WAIT}

\* what event::poll and event::read come back with
PollOutcomes ==
    {[result |-> "Key", code |-> k[1], kind |-> k[2]] : k \in PumpKeys}
    \cup {[result |-> r, code |-> "", kind |-> ""] :
              r \in {"Resize", "Other", "Timeout", "PollErr", "ReadErr"}}

\* the pump thread has left its loop
PumpDone == pump_pc \in {"shutdown", "failed", "hung_up"}

app_vars == <<doc_vars, toc_vars, search_vars, current_scroll_pos, mode, app_state,
              panicked>>

\* the n-th event sent, of the given type, in the current poll cycle
Event(type, code, kind, n) ==
    [type |-> type, code |-> code, kind |-> kind, seq |-> n, cycle |-> cycle]

\* the tick check comes first and the poll after it
pump_next_pc_tick_first(pc) ==
    CASE pc = "check" -> "tick" [] pc = "tick" -> "poll" [] pc = "poll" -> "check"

\* the order of the loop body: shutdown check, poll and read, tick check
pump_next_pc(pc) ==
    CASE pc = "check" -> "poll" [] pc = "poll" -> "tick" [] pc = "tick" -> "check"

\* EventHandler::new(rate): the channels are created and the thread is
\* spawned, the tick rate moved into it
EventHandler_new(rate) ==
    /\ handler = "none"
    /\ constructed
    /\ run_app_result = "NotStarted"
    /\ handler' = "alive"
    /\ pump_pc' = "check"
    /\ tick_rate' = rate
    /\ last_tick_elapsed' = 0
    /\ run_app_result' = "Running"
    /\ last_op' = Op("EventHandler::new", 0, "")
    /\ UNCHANGED <<app_vars, cycle, event_chan, sent_count, delivered, shutdown_chan,
                   timeout, cycle_sent, after_signal, main_vars, toc_scan, run_app_pc>>

\* the signal is not looked for
try_recv_is_ok_never(signals) == FALSE

\* shutdown_receiver.try_recv().is_ok(): a signal is queued
try_recv_is_ok(signals) == signals > 0

\* the top of the loop: shutdown_receiver.try_recv().is_ok() breaks
pump_check_shutdown ==
    /\ pump_pc = "check"
    /\ IF try_recv_is_ok(shutdown_chan)
       THEN /\ shutdown_chan' = shutdown_chan - 1
            /\ pump_pc' = "shutdown"
            /\ UNCHANGED <<cycle, cycle_sent>>
       ELSE /\ cycle < MaxCycles
            /\ cycle' = cycle + 1
            /\ cycle_sent' = <<>>
            /\ pump_pc' = pump_next_pc(pump_pc)
            /\ UNCHANGED shutdown_chan
    /\ last_op' = Op("pump", 0, "")
    /\ UNCHANGED <<app_vars, event_vars, event_chan, sent_count, delivered, tick_rate,
                   timeout, last_tick_elapsed, after_signal, handler, main_vars, toc_scan, run_app_pc>>

\* event_sender.send(event): fails once the receiver is gone
pump_send(type, code, kind, next_pc) ==
    IF handler = "dropped"
    THEN /\ pump_pc' = "hung_up"
         /\ UNCHANGED <<event_chan, sent_count, cycle_sent>>
    ELSE /\ event_chan' = Append(event_chan, Event(type, code, kind, sent_count + 1))
         /\ sent_count' = sent_count + 1
         /\ cycle_sent' = Append(cycle_sent, type)
         /\ pump_pc' = next_pc

\* the wait is not capped
poll_timeout_uncapped(rate, elapsed) == saturating_sub(rate, elapsed)

\* tick_rate.saturating_sub(last_tick.elapsed()).min(MAX_POLL_WAIT)
poll_timeout(rate, elapsed) == Min({saturating_sub(rate, elapsed), MAX_POLL_WAIT})

\* what the pump has done since the shutdown signal was sent, after a step
\* that began polls polls and sent events events
SinceSignal(signalled, polls, events) ==
    IF signalled
    THEN [polls |-> after_signal.polls + polls, events |-> after_signal.events + events]
    ELSE after_signal

\* event::poll(timeout) and, when it reports an event, event::read(): the
\* thread gets to read its clock after delay milliseconds, and the call
\* returns after wait milliseconds, a timeout having lasted the timeout at
\* least
pump_poll(outcome, delay, wait) ==
    /\ pump_pc = "poll"
    /\ timeout' = poll_timeout(tick_rate, last_tick_elapsed + delay)
    /\ outcome.result = "Timeout" => wait >= timeout'
    /\ last_tick_elapsed' = last_tick_elapsed + delay + wait
    /\ CASE outcome.result = "Key" ->
                pump_send("Key", outcome.code, outcome.kind, pump_next_pc(pump_pc))
         [] outcome.result = "Resize" ->
                pump_send("Resize", "", "", pump_next_pc(pump_pc))
         [] outcome.result \in {"Other", "Timeout"} ->
                /\ pump_pc' = pump_next_pc(pump_pc)
                /\ UNCHANGED <<event_chan, sent_count, cycle_sent>>
         [] outcome.result \in {"PollErr", "ReadErr"} ->
                /\ pump_pc' = "failed"
                /\ UNCHANGED <<event_chan, sent_count, cycle_sent>>
    /\ after_signal' = SinceSignal(handler = "joining", 1, sent_count' - sent_count)
    /\ last_op' = Op("pump", last_tick_elapsed + delay, outcome.result)
    /\ UNCHANGED <<app_vars, event_vars, cycle, delivered, shutdown_chan, tick_rate,
                   handler, main_vars, toc_scan, run_app_pc>>

\* a tick is due whatever the clock reads
tick_due_always(elapsed, rate) == TRUE

\* last_tick.elapsed() >= tick_rate
tick_due(elapsed, rate) == elapsed >= rate

\* the tick check: a due tick is sent and then last_tick = Instant::now()
pump_tick ==
    /\ pump_pc = "tick"
    /\ IF tick_due(last_tick_elapsed, tick_rate)
       THEN /\ pump_send("Tick", "", "", pump_next_pc(pump_pc))
            /\ last_tick_elapsed' = IF pump_pc' = "hung_up" THEN last_tick_elapsed ELSE 0
       ELSE /\ pump_pc' = pump_next_pc(pump_pc)
            /\ UNCHANGED <<event_chan, sent_count, cycle_sent, last_tick_elapsed>>
    /\ after_signal' = SinceSignal(handler = "joining", 0, sent_count' - sent_count)
    /\ last_op' = Op("pump", last_tick_elapsed, "")
    /\ UNCHANGED <<app_vars, event_vars, cycle, delivered, shutdown_chan, tick_rate,
                   timeout, handler, main_vars, toc_scan, run_app_pc>>

\* recv() reports a disconnected channel as soon as the sender is gone
recv_disconnected_early(chan, sender_dropped) == sender_dropped

\* Receiver::recv returns Err: the sender is dropped and nothing is left
recv_disconnected(chan, sender_dropped) == sender_dropped /\ chan = <<>>

\* a key event of any kind is taken for a press
EventArm_any_kind(event) ==
    IF event.type = "Key"
    THEN KeyArm(event.code, Op("key", 0, event.code))
    ELSE ignore_by(Op("event", 0, ""))

\* the match of run_app on the event that next() returned, entered for a key
\* event of kind Press only
EventArm(event) ==
    IF event.type = "Key" /\ event.kind = "Press"
    THEN KeyArm(event.code, Op("key", 0, event.code))
    ELSE ignore_by(Op("event", 0, ""))

\* one iteration of run_app: EventHandler::next returns the oldest event and
\* the match handles it
run_app_next ==
    /\ Running
    /\ run_app_pc = "next"
    /\ run_app_pc' = "draw"
    /\ handler = "alive"
    /\ event_chan # <<>>
    /\ ~recv_disconnected(event_chan, PumpDone)
    /\ delivered' = Head(event_chan)
    /\ event_chan' = Tail(event_chan)
    /\ EventArm(Head(event_chan))
    /\ UNCHANGED <<pump_pc, cycle, sent_count, shutdown_chan, tick_rate, timeout,
                   last_tick_elapsed, cycle_sent, after_signal, handler, main_vars, toc_scan>>

\* EventHandler::next returns the error and run_app passes it on with ?
run_app_next_error ==
    /\ Live
    /\ Running
    /\ run_app_pc = "next"
    /\ handler = "alive"
    /\ recv_disconnected(event_chan, PumpDone)
    /\ run_app_result' = "Err"
    /\ last_op' = Op("recv_error", 0, "")
    /\ UNCHANGED <<app_vars, pump_vars, main_vars, toc_scan, run_app_pc>>

\* shutdown_sender.send(()), its result ignored: the signal is queued unless
\* the thread and its receiver are gone
shutdown_send_none(n, receiver_dropped) == n

shutdown_send(n, receiver_dropped) == IF receiver_dropped THEN n ELSE n + 1

\* Drop for EventHandler, first half: run_app has returned or unwound
EventHandler_drop_send ==
    /\ handler = "alive"
    /\ run_app_result \in {"Ok", "Err"} \/ panicked
    /\ shutdown_chan' = shutdown_send(shutdown_chan, PumpDone)
    /\ handler' = "joining"
    /\ last_op' = Op("drop", 0, "")
    /\ UNCHANGED <<app_vars, event_vars, pump_pc, cycle, event_chan, sent_count,
                   delivered, tick_rate, timeout, last_tick_elapsed, cycle_sent,
                   after_signal, main_vars, toc_scan, run_app_pc>>

\* the join waits for the thread to take the shutdown signal
join_returns_on_signal(pump_done) == pump_done /\ pump_pc = "shutdown"

\* handle.join() returns once the thread has finished, however it did
join_returns(pump_done) == pump_done

\* Drop for EventHandler, second half: thread_handle.take() and handle.join();
\* the receiver goes with the handler
EventHandler_drop_join ==
    /\ handler = "joining"
    /\ join_returns(PumpDone)
    /\ handler' = "dropped"
    /\ event_chan' = <<>>
    /\ last_op' = Op("drop", 0, "")
    /\ UNCHANGED <<app_vars, event_vars, pump_pc, cycle, sent_count, delivered,
                   shutdown_chan, tick_rate, timeout, last_tick_elapsed, cycle_sent,
                   after_signal, main_vars, toc_scan, run_app_pc>>

(***************************************************************************)
(* RfcCache (cache.rs).                                                    *)
(***************************************************************************)
\* the file names met in the cache directory
FileNames == <<"rfc1.txt", "sub", "rfc-index.txt", "x">>

Names == {FileNames[i] : i \in 1..Min({MaxNames, Len(FileNames)})}

\* what a directory entry is: nothing, a regular file, a directory with its
\* own entries, or something that is neither (a dangling link, a socket)
NoChildren == [n \in Names |-> "absent"]

Entry(k, c) == [kind |-> k, children |-> c]

Absent == Entry("absent", NoChildren)

CacheEntries ==
    {Entry(k, NoChildren) : k \in {"absent", "file", "other"}}
    \cup {Entry("dir", c) : c \in [Names -> {"absent", "file", "dir"}]}

\* the cache directories clear is run on
CacheDirs == [Names -> CacheEntries]

\* main is not running and nothing has been cleared
NoMain ==
    /\ cache_dir_exists = TRUE
    /\ cache_dir = [n \in Names |-> Absent]
    /\ clear_pc = "none"
    /\ clear_entries = {}
    /\ main_pc = "none"
    /\ offline = FALSE
    /\ main_log = <<>>
    /\ cache_text = <<>>

\* RfcCache::new: create_dir_all makes the cache directory if it is missing
RfcCache_new ==
    /\ clear_pc \in {"none", "Ok", "Err"}
    /\ cache_dir_exists' = TRUE
    /\ clear_pc' = "none"
    /\ main_log' = <<>>
    /\ last_op' = Op("RfcCache::new", 0, "")
    /\ UNCHANGED <<app_vars, event_vars, pump_vars, cache_dir, clear_entries, main_pc,
                   offline, cache_text, run_app_pc, toc_scan>>

\* RfcCache::clear, its first statement: read_dir fails on a missing directory
clear_read_dir ==
    /\ clear_pc = "none"
    /\ IF cache_dir_exists
       THEN /\ clear_pc' = "entries"
            /\ clear_entries' = {n \in Names : cache_dir[n].kind # "absent"}
       ELSE /\ clear_pc' = "Err"
            /\ clear_entries' = {}
    /\ last_op' = Op("clear", 0, "")
    /\ UNCHANGED <<app_vars, event_vars, pump_vars, cache_dir_exists, cache_dir,
                   main_pc, offline, main_log, cache_text, run_app_pc, toc_scan>>

\* only regular files are removed
clear_removes_files_only(kind) == kind = "file"

\* path.is_file() gets remove_file, path.is_dir() gets remove_dir_all
clear_removes(kind) == kind \in {"file", "dir"}

\* RfcCache::clear, one turn of its loop
clear_entry(name) ==
    /\ clear_pc = "entries"
    /\ name \in clear_entries
    /\ clear_entries' = clear_entries \ {name}
    /\ IF clear_removes(cache_dir[name].kind)
       THEN /\ cache_dir' = [cache_dir EXCEPT ![name] = Absent]
            /\ main_log' = Append(main_log, <<"remove", cache_dir[name]>>)
       ELSE UNCHANGED <<cache_dir, main_log>>
    /\ last_op' = Op("clear", 0, name)
    /\ UNCHANGED <<app_vars, event_vars, pump_vars, cache_dir_exists, clear_pc,
                   main_pc, offline, cache_text, run_app_pc, toc_scan>>

\* RfcCache::clear after its loop: the directory goes if nothing is left in it
clear_remove_dir ==
    /\ clear_pc = "entries"
    /\ clear_entries = {}
    /\ cache_dir_exists' = (\E n \in Names : cache_dir[n].kind # "absent")
    /\ clear_pc' = "Ok"
    /\ last_op' = Op("clear", 0, "")
    /\ UNCHANGED <<app_vars, event_vars, pump_vars, cache_dir, clear_entries, main_pc,
                   offline, main_log, cache_text, run_app_pc, toc_scan>>

(***************************************************************************)
(* main loading the document (main.rs).                                    *)
(***************************************************************************)
\* format_cache_path: the file the RFC that main was asked for is cached in
RfcFile == FileNames[1]

\* get_cached_rfc returns Ok: the path exists and read_to_string reads it
is_cached == cache_dir_exists /\ cache_dir[RfcFile].kind = "file"

\* what get_cached_rfc returns: the text of the file, or an error
get_cached_rfc == [ok |-> is_cached, text |-> IF is_cached THEN cache_text ELSE <<>>]

\* the documents the cache or the network hands over
MainDocs == {Join(<<L_1a, L_aAa>>), Join(DocStructured)}

\* what fetch_rfc and cache_rfc come back with
FetchResults ==
    {[ok |-> TRUE, text |-> d] : d \in MainDocs} \cup {[ok |-> FALSE, text |-> <<>>]}

CacheRfcResults == {"Ok", "CreateErr", "WriteErr"}

Logged(what) == Append(main_log, what)

\* the --offline flag is not looked at
load_next_pc_fetch_always(hit, is_offline) == IF hit THEN "init_tui" ELSE "fetch"

\* where main goes after get_cached_rfc: on with the cached text, out with
\* bail! when offline, or on to the network
load_next_pc(hit, is_offline) ==
    IF hit THEN "init_tui" ELSE IF is_offline THEN "Err" ELSE "fetch"

\* main: cache.get_cached_rfc(rfc_number) and the offline check
main_get_cached_rfc ==
    /\ main_pc = "load"
    /\ main_pc' = load_next_pc(get_cached_rfc.ok, offline)
    /\ IF get_cached_rfc.ok
       THEN /\ rfc_content' = get_cached_rfc.text
            /\ main_log' = Logged("cache_hit")
       ELSE /\ main_log' = Logged("cache_miss")
            /\ UNCHANGED rfc_content
    /\ last_op' = Op("get_cached_rfc", 0, "")
    /\ UNCHANGED <<rfc_line_number, toc_vars, search_vars, current_scroll_pos, mode,
                   app_state, constructed, panicked, event_vars, pump_vars,
                   cache_dir_exists, cache_dir, clear_pc, clear_entries, offline,
                   cache_text, run_app_pc, toc_scan>>

\* main: client.fetch_rfc(rfc_number)?
main_fetch_rfc(response) ==
    /\ main_pc = "fetch"
    /\ IF ~response.ok
       THEN /\ main_pc' = "Err"
            /\ main_log' = Logged("fetch_err")
            /\ UNCHANGED rfc_content
       ELSE /\ main_pc' = "cache_rfc"
            /\ main_log' = Logged("fetch_ok")
            /\ rfc_content' = response.text
    /\ last_op' = Op("fetch_rfc", 0, "")
    /\ UNCHANGED <<rfc_line_number, toc_vars, search_vars, current_scroll_pos, mode,
                   app_state, constructed, panicked, event_vars, pump_vars,
                   cache_dir_exists, cache_dir, clear_pc, clear_entries, offline, cache_text, run_app_pc, toc_scan>>

\* how many bytes write_all has written when it fails
PartialWrites == {0, 1}

\* the file is left as the failed write made it
cache_rfc_cleanup_none(entry, removed) == entry

\* let _ = fs::remove_file(&rfc_path): the file goes unless the removal fails
cache_rfc_cleanup(entry, removed) == IF removed THEN Absent ELSE entry

\* main: cache.cache_rfc(rfc_number, &content)?; File::create fails on a
\* directory; write_all fails after written bytes, and the file is then
\* removed, or is not when remove_file fails too
main_cache_rfc(result, written, removed) ==
    /\ main_pc = "cache_rfc"
    /\ cache_dir[RfcFile].kind = "dir" => result = "CreateErr"
    /\ CASE result = "Ok" ->
                /\ cache_dir' = [cache_dir EXCEPT ![RfcFile] = Entry("file", NoChildren)]
                /\ cache_text' = rfc_content
                /\ main_pc' = "init_tui"
                /\ main_log' = Logged("write_ok")
         [] result = "CreateErr" ->
                /\ main_pc' = "Err"
                /\ main_log' = Logged("write_err")
                /\ UNCHANGED <<cache_dir, cache_text>>
         [] result = "WriteErr" ->
                /\ written < Len(rfc_content)
                /\ cache_dir' = [cache_dir EXCEPT ![RfcFile] =
                                    cache_rfc_cleanup(Entry("file", NoChildren), removed)]
                /\ cache_text' = SubSeq(rfc_content, 1, written)
                /\ main_pc' = "Err"
                /\ main_log' = IF removed
                               THEN Logged("write_err")
                               ELSE Logged("write_err") \o <<"remove_err">>
    /\ last_op' = Op("cache_rfc", written, result)
    /\ UNCHANGED <<app_vars, event_vars, pump_vars, cache_dir_exists, clear_pc,
                   clear_entries, offline, run_app_pc, toc_scan>>

\* main: init_tui()?
main_init_tui(ok) ==
    /\ main_pc = "init_tui"
    /\ main_pc' = IF ok THEN "ui" ELSE "Err"
    /\ main_log' = Logged("init_tui")
    /\ last_op' = Op("init_tui", 0, "")
    /\ UNCHANGED <<app_vars, event_vars, pump_vars, cache_dir_exists, cache_dir,
                   clear_pc, clear_entries, offline, cache_text, run_app_pc, toc_scan>>

\* main returns what run_app returned
main_return ==
    /\ main_pc = "ui"
    /\ run_app_result \in {"Ok", "Err"}
    /\ main_pc' = run_app_result
    /\ last_op' = Op("main", 0, "")
    /\ UNCHANGED <<app_vars, event_vars, pump_vars, cache_dir_exists, cache_dir,
                   clear_pc, clear_entries, offline, main_log, cache_text, run_app_pc, toc_scan>>

(***************************************************************************)
(* Specifications.                                                         *)
(***************************************************************************)
\* the App after App::new, driven through its public operations
Init ==
    /\ NotScanning
    /\ \E content \in AppDocs : Constructed(content)
    /\ constructed = TRUE
    /\ last_op = Op("new", 0, "")
    /\ NotStarted
    /\ NoEventHandler
    /\ NoMain

Next ==
    \/ \E amount \in Amounts : scroll_up(amount)
    \/ \E amount \in Amounts : scroll_down(amount)
    \/ jump_to_toc_entry
    \/ toggle_help
    \/ enter_search_mode
    \/ exit_search_mode
    \/ \E ch \in QueryChars : add_search_char(ch)
    \/ remove_search_char
    \/ perform_search
    \/ next_search_result
    \/ prev_search_result
    \/ reset_search_highlights

Spec == Init /\ [][Next]_vars

\* the App after App::new, its outline selection moved and jumped to
InitToc ==
    /\ NotScanning
    /\ \E content \in AppDocs \cup {Join(DocReordered)} : Constructed(content)
    /\ constructed = TRUE
    /\ last_op = Op("new", 0, "")
    /\ NotStarted
    /\ NoEventHandler
    /\ NoMain

NextToc ==
    \/ TocPanel_next
    \/ TocPanel_previous
    \/ jump_to_toc_entry
    \/ \E amount \in Amounts : scroll_up(amount)
    \/ \E amount \in Amounts : scroll_down(amount)

SpecToc == InitToc /\ [][NextToc]_vars

\* the App after App::new, scrolled by every amount
NextScroll ==
    \/ \E amount \in AllAmounts : scroll_up(amount)
    \/ \E amount \in AllAmounts : scroll_down(amount)

SpecScroll == Init /\ [][NextScroll]_vars

\* one iteration of the loop of extract_toc_entries
extract_toc_entries_iteration(panics) ==
    /\ toc_scan.pc = "loop"
    /\ toc_scan.index < Len(toc_scan.lines)
    /\ toc_scan' = ScanAfter(toc_scan,
                             should_stop_parsing(
                                 trim_end(toc_scan.lines[toc_scan.index + 1]),
                                 toc_scan.has_found_entries,
                                 toc_scan.consecutive_empty_lines,
                                 toc_scan.lines_without_entries),
                             try_extract_entry(
                                 trim_end(toc_scan.lines[toc_scan.index + 1]),
                                 toc_scan.lines, toc_scan.index),
                             panics)
    /\ last_op' = Op("extract_toc_entries", toc_scan.index, "")
    /\ UNCHANGED <<app_vars, event_vars, pump_vars, main_vars, run_app_pc>>

\* the lines are exhausted: extract_toc_entries returns its entries
extract_toc_entries_return ==
    /\ toc_scan.pc = "loop"
    /\ toc_scan.index >= Len(toc_scan.lines)
    /\ toc_scan' = [toc_scan EXCEPT !.pc = "done"]
    /\ last_op' = Op("extract_toc_entries", toc_scan.index, "end")
    /\ UNCHANGED <<app_vars, event_vars, pump_vars, main_vars, run_app_pc>>

\* the documents the scan for the outline is followed on, as their lines
ScanDocs == DocRuns
            \cup {DocBlankRun(n) : n \in 1..(MaxConsecutiveEmptyLines + 1)}
            \cup {DocLateEntry(n) :
                      n \in (MaxLinesWithoutEntries - 1)..(MaxLinesWithoutEntries + 1)}
            \cup {DocSecondHeader, DocLongOutline, DocStructured}

\* parse_toc_existing has found the contents header and calls
\* extract_toc_entries
InitScan ==
    /\ Default(<<>>)
    /\ constructed = FALSE
    /\ panicked = FALSE
    /\ last_op = Op("default", 0, "")
    /\ NotStarted
    /\ NoEventHandler
    /\ NoMain
    /\ \E lines \in ScanDocs :
          /\ find_toc_start(lines) # NONE
          /\ toc_scan = ScanStart(lines, find_toc_start(lines))

NextScan ==
    \/ \E panics \in BOOLEAN : extract_toc_entries_iteration(panics)
    \/ extract_toc_entries_return

SpecScan == InitScan /\ [][NextScan]_vars

\* loading: App::new applied to each document
InitLoad ==
    /\ NotScanning
    /\ \E content \in TocDocs : Default(content)
    /\ constructed = FALSE
    /\ panicked = FALSE
    /\ last_op = Op("default", 0, "")
    /\ NotStarted
    /\ NoEventHandler
    /\ NoMain

NextLoad == AppNew

SpecLoad == InitLoad /\ [][NextLoad]_vars

\* the documents run_app is followed on
KeyDocs == {Join(DocStructured)}

\* run_app on the App that App::new returned, one key event after another
InitKeys ==
    /\ NotScanning
    /\ \E content \in KeyDocs : Constructed(content)
    /\ constructed = TRUE
    /\ run_app_result = "Running"
    /\ last_op = Op("new", 0, "")
    /\ NoEventHandler
    /\ NoMain

NextKeys ==
    \/ \E key \in Keys :
          /\ mode = "Search" => key \in NamedKeys \cup TypedChars
          /\ run_app_key(key)
    \/ run_app_other_event
    \/ run_app_draw
    \/ run_app_return
    \/ run_app_io_error

SpecKeys == InitKeys /\ [][NextKeys]_vars

\* main: the App, the EventHandler with its pump thread, run_app, the drop
InitPump ==
    /\ NotScanning
    /\ Constructed(Join(<<L_1a, L_aAa>>))
    /\ constructed = TRUE
    /\ NotStarted
    /\ NoEventHandler
    /\ NoMain
    /\ last_op = Op("new", 0, "")

PumpStep ==
    \/ pump_check_shutdown
    \/ \E outcome \in PollOutcomes, wait \in PumpWaits : pump_poll(outcome, 0, wait)
    \/ pump_tick

MainStep ==
    \/ EventHandler_new(TickRate)
    \/ run_app_draw
    \/ run_app_next
    \/ run_app_next_error
    \/ run_app_return_step /\ UNCHANGED <<pump_vars, main_vars, toc_scan, run_app_pc>>
    \/ EventHandler_drop_send
    \/ EventHandler_drop_join

NextPump ==
    \/ PumpStep
    \/ MainStep
    \/ run_app_io_error_step /\ UNCHANGED <<pump_vars, main_vars, toc_scan, run_app_pc>>

SpecPump == InitPump /\ [][NextPump]_vars

\* both threads keep being scheduled, and every poll returns
SpecPumpFair == SpecPump /\ WF_vars(PumpStep) /\ WF_vars(MainStep)

\* the pump thread alone, spawned with every tick rate, its clock reading
\* every elapsed time
NextPoll ==
    \/ \E rate \in Durations : EventHandler_new(rate)
    \/ pump_check_shutdown
    \/ \E outcome \in PollOutcomes, delay \in PollDelays, wait \in PollWaits :
          pump_poll(outcome, delay, wait)
    \/ pump_tick

SpecPoll == InitPump /\ [][NextPoll]_vars

\* RfcCache::clear on every cache directory, and on what it left behind
InitClear ==
    /\ NotScanning
    /\ Default(<<>>)
    /\ constructed = FALSE
    /\ panicked = FALSE
    /\ NotStarted
    /\ NoEventHandler
    /\ cache_dir_exists = TRUE
    /\ cache_dir \in CacheDirs
    /\ clear_pc = "none"
    /\ clear_entries = {}
    /\ main_pc = "none"
    /\ offline = FALSE
    /\ main_log = <<>>
    /\ cache_text = <<>>
    /\ last_op = Op("RfcCache::new", 0, "")

NextClear ==
    \/ RfcCache_new
    \/ clear_read_dir
    \/ \E name \in Names : clear_entry(name)
    \/ clear_remove_dir

SpecClear == InitClear /\ [][NextClear]_vars

\* main, asked for an RFC, with every cache directory, online and offline
InitMain ==
    /\ NotScanning
    /\ Default(<<>>)
    /\ constructed = FALSE
    /\ panicked = FALSE
    /\ NotStarted
    /\ NoEventHandler
    /\ cache_dir_exists = TRUE
    /\ cache_dir \in CacheDirs
    /\ clear_pc = "none"
    /\ clear_entries = {}
    /\ main_pc = "load"
    /\ offline \in BOOLEAN
    /\ main_log = <<>>
    /\ cache_text \in (IF cache_dir[RfcFile].kind = "file" THEN MainDocs ELSE {<<>>})
    /\ last_op = Op("main", 0, "")

NextMain ==
    \/ main_get_cached_rfc
    \/ \E response \in FetchResults : main_fetch_rfc(response)
    \/ \E result \in CacheRfcResults, written \in PartialWrites, removed \in BOOLEAN :
          main_cache_rfc(result, written, removed)
    \/ \E ok \in BOOLEAN : main_init_tui(ok)
    \/ main_pc = "ui" /\ AppNew
    \/ main_pc = "ui" /\ EventHandler_new(TickRate)
    \/ main_pc = "ui" /\ run_app_draw
    \/ main_pc = "ui" /\ run_app_key("q")
    \/ main_pc = "ui" /\ run_app_return
    \/ main_pc = "ui" /\ run_app_io_error
    \/ main_return

SpecMain == InitMain /\ [][NextMain]_vars

(***************************************************************************)
(* Properties.                                                             *)
(***************************************************************************)
LastLine == Max({rfc_line_number - 1, 0})

\* C1: in every state reachable from App::new through the scroll, jump, search
\* and reset operations, current_scroll_pos lies in [0, max(line_count - 1, 0)].
C1_ScrollPosInRange ==
    current_scroll_pos \in 0..LastLine

\* a search has moved the viewport to the last line of a document
C1_Witness ==
    /\ last_op.name = "perform_search"
    /\ rfc_line_number > 1
    /\ current_scroll_pos = rfc_line_number - 1
    /\ query_match_line_nums # <<>>

\* C2: for every amount of the machine word, scroll_up leaves
\* max(scroll_pos - amount, 0) and scroll_down leaves
\* min(scroll_pos + amount, max(line_count - 1, 0)), computed without
\* wrap-around, and neither faults; with line_count = 0 scroll_down stays at 0.
C2_ScrollSaturates ==
    [][/\ last_op'.name = "scroll_up" =>
              current_scroll_pos' = Max({current_scroll_pos - last_op'.amount, 0})
       /\ last_op'.name = "scroll_down" =>
              current_scroll_pos' = Min({current_scroll_pos + last_op'.amount, LastLine})
       /\ last_op'.name \in {"scroll_up", "scroll_down"} => ~panicked']_vars

\* scroll_down by the largest amount has stopped on the last line
C2_Witness ==
    /\ last_op.name = "scroll_down"
    /\ last_op.amount = UsizeMax
    /\ rfc_line_number > 2
    /\ current_scroll_pos = rfc_line_number - 1

\* C3: the selection saturates at both ends, so after any next/previous calls
\* the selected index is a valid index into the entries and reading the
\* selected entry does not fault.
C3_SelectionValid ==
    /\ selected # NONE => selected < Len(entries)
    /\ ~panicked

\* C4: every line_number of the entries parse_toc returns is a line of the
\* document: 0 <= line_number < line_count.
C4_LineNumbersValid ==
    constructed =>
        \A i \in 1..Len(entries) :
            entries[i].line_number \in 0..(rfc_line_number - 1)

\* the structured phase has produced an entry on the last line of a document
C4_Witness ==
    /\ constructed
    /\ ~heuristic_ran
    /\ \E i \in 1..Len(entries) : entries[i].line_number = rfc_line_number - 1

\* C5: the entries produced at load time are ordered by increasing line_number.
C5_EntriesOrdered ==
    \A i, j \in 1..Len(entries) :
        i < j => entries[i].line_number <= entries[j].line_number

\* the entries of the structured phase alone (empty without a header)
PhaseAFrom(lines, start_index) ==
    IF start_index = NONE THEN <<>> ELSE extract_toc_entries(lines, start_index).entries

PhaseAIn(lines) == PhaseAFrom(lines, find_toc_start(lines))

PhaseA(content) == PhaseAIn(Lines(content))

\* the outline the claim describes, for the structured result a
ExpectedToc(a, content) ==
    [entries |-> IF a # <<>> THEN a ELSE HeuristicFrom(Lines(content), 0, <<>>, FALSE),
     heuristic_ran |-> (a = <<>>)]

\* C6: parse_toc returns the structured result when it has an entry and
\* otherwise exactly the heuristic result over the whole document; the
\* heuristic does not run when the structured result is non-empty; an empty
\* heuristic result is an empty outline without a selection, not an error.
C6_PhaseOrder ==
    constructed =>
        /\ [entries |-> entries, heuristic_ran |-> heuristic_ran]
               = ExpectedToc(PhaseA(rfc_content), rfc_content)
        /\ entries = <<>> => selected = NONE
        /\ ~panicked

\* a header was found, the structured phase came up empty, and the heuristic
\* supplied the entries
C6_Witness ==
    /\ constructed
    /\ find_toc_start(Lines(rfc_content)) # NONE
    /\ heuristic_ran
    /\ entries # <<>>

SpansOrdered(spans) ==
    /\ spans # <<>>
    /\ \A i \in 1..Len(spans) : spans[i].start < spans[i].end
    /\ \A i \in 1..(Len(spans) - 1) : spans[i].end <= spans[i + 1].start

\* C7: match_lines is strictly increasing, the keys of match_spans are exactly
\* the match lines, and every span list is non-empty, sorted by start and
\* non-overlapping.
C7_MatchDataWellFormed ==
    /\ \A i \in 1..(Len(query_match_line_nums) - 1) :
          query_match_line_nums[i] < query_match_line_nums[i + 1]
    /\ DOMAIN query_matches =
          {query_match_line_nums[i] : i \in 1..Len(query_match_line_nums)}
    /\ \A ln \in DOMAIN query_matches : SpansOrdered(query_matches[ln])

\* a search has found two match lines, one of them with two spans
C7_Witness ==
    /\ last_op.name = "perform_search"
    /\ Len(query_match_line_nums) >= 2
    /\ \E ln \in DOMAIN query_matches : Len(query_matches[ln]) >= 2

\* C8: a search with a non-empty query that finds a match line makes current
\* the first match line >= the scroll position held before the search and
\* moves the viewport to it.
C8_SearchJumpsToLowerBound ==
    [][(/\ last_op'.name = "perform_search"
        /\ query_text # <<>>
        /\ query_match_line_nums' # <<>>) =>
          LET at_or_after == {i \in 1..Len(query_match_line_nums') :
                                 query_match_line_nums'[i] >= current_scroll_pos}
          IN  /\ at_or_after # {}
              /\ current_query_match_index' = Min(at_or_after) - 1
              /\ current_scroll_pos' = query_match_line_nums'[Min(at_or_after)]]_vars

\* C9: whenever match_lines is non-empty, current_match_index is a valid index
\* into it.
C9_MatchIndexValid ==
    query_match_line_nums # <<>> =>
        current_query_match_index < Len(query_match_line_nums)

\* C10: with non-empty match_lines, next_search_result makes current the first
\* match line strictly greater than scroll_pos and moves there, and changes
\* nothing when there is none; prev_search_result likewise with the last match
\* line strictly less; both change nothing when match_lines is empty.
C10_AdvanceRelativeToScroll ==
    [][/\ last_op'.name = "next_search_result" =>
              LET after == {i \in 1..Len(query_match_line_nums) :
                               query_match_line_nums[i] > current_scroll_pos}
              IN  IF after # {}
                  THEN /\ current_query_match_index' = Min(after) - 1
                       /\ current_scroll_pos' = query_match_line_nums[Min(after)]
                  ELSE UNCHANGED <<current_query_match_index, current_scroll_pos>>
       /\ last_op'.name = "prev_search_result" =>
              LET before == {i \in 1..Len(query_match_line_nums) :
                                query_match_line_nums[i] < current_scroll_pos}
              IN  IF before # {}
                  THEN /\ current_query_match_index' = Max(before) - 1
                       /\ current_scroll_pos' = query_match_line_nums[Max(before)]
                  ELSE UNCHANGED <<current_query_match_index, current_scroll_pos>>
       /\ last_op'.name \in {"next_search_result", "prev_search_result"} =>
              UNCHANGED <<query_text, query_match_line_nums, query_matches,
                          app_state, selected>>]_vars

\* the text q occurs in line, letter case ignored
OccursIgnoringCase(line, q) ==
    \E i \in 1..(Len(line) - Len(q) + 1) :
        \A k \in 1..Len(q) :
            to_lowercase_char(line[i + k - 1]) = to_lowercase_char(q[k])

\* some line of the document holds the query text
QueryOccurs ==
    \E n \in 1..Len(Lines(rfc_content)) :
        OccursIgnoringCase(Lines(rfc_content)[n], query_text)

\* C11: perform_search with a non-empty query sets the "no results" flag
\* exactly when no line holds the query and clears it otherwise; with no match
\* lines, next_search_result and prev_search_result change nothing.
C11_NoResultsFlag ==
    [][/\ (last_op'.name = "perform_search" /\ query_text # <<>>) =>
              /\ ("HAS_NO_RESULTS" \in app_state') = ~QueryOccurs
              /\ (query_match_line_nums' = <<>>) = ~QueryOccurs
       /\ (/\ last_op'.name \in {"next_search_result", "prev_search_result"}
           /\ query_match_line_nums = <<>>) =>
              UNCHANGED <<event_vars, doc_vars, toc_vars, search_vars, current_scroll_pos,
                          mode, app_state, panicked>>]_vars

\* a search for a text no line holds has set the flag, and a step to the next
\* or previous result was taken after it
C11_Witness ==
    /\ last_op.name \in {"next_search_result", "prev_search_result"}
    /\ query_text # <<>>
    /\ query_match_line_nums = <<>>
    /\ "HAS_NO_RESULTS" \in app_state

\* C12: perform_search with an empty query leaves no match lines, no spans and
\* no "no results" flag, whatever the search before it found, and does not move
\* the viewport.
C12_EmptyQueryClears ==
    [][(last_op'.name = "perform_search" /\ query_text = <<>>) =>
          /\ query_match_line_nums' = <<>>
          /\ query_matches' = <<>>
          /\ "HAS_NO_RESULTS" \notin app_state'
          /\ current_scroll_pos' = current_scroll_pos]_vars

\* the search fields as App::default() sets them
SearchStateInitial(text, nums, spans, index, flags) ==
    /\ text = <<>>
    /\ nums = <<>>
    /\ spans = <<>>
    /\ index = 0
    /\ "HAS_NO_RESULTS" \notin flags

\* C13: after reset_search_highlights, in whatever mode and after whatever
\* search, the search state equals the initial one (query text empty, no match
\* lines, no spans, index 0, "no results" flag clear), and the reset leaves the
\* scroll position, the mode and the outline selection as they were.
C13_ResetRestoresInitial ==
    [][last_op'.name = "reset_search_highlights" =>
          /\ SearchStateInitial(query_text', query_match_line_nums', query_matches',
                                current_query_match_index', app_state')
          /\ UNCHANGED <<current_scroll_pos, mode, entries, selected>>]_vars

\* a reset taken in Search mode, after a search has moved the viewport
C13_Witness ==
    /\ last_op.name = "reset_search_highlights"
    /\ mode = "Search"
    /\ current_scroll_pos > 0
    /\ SearchStateInitial(query_text, query_match_line_nums, query_matches,
                          current_query_match_index, app_state)

\* the numbers of the lines that hold the text q, none for the empty text
LinesHolding(q) ==
    {n \in 0..(Len(Lines(rfc_content)) - 1) :
        q # <<>> /\ OccursIgnoringCase(Lines(rfc_content)[n + 1], q)}

\* C14: query_text, match_lines and match_spans change together: in every
\* reachable state that stores match lines or spans, they are those of the
\* stored query_text, so entering search mode or editing the query text leaves no
\* match data attached to a different query_text.
C14_MatchDataOfQueryText ==
    (query_match_line_nums # <<>> \/ query_matches # <<>>) =>
        /\ {query_match_line_nums[i] : i \in 1..Len(query_match_line_nums)}
               = LinesHolding(query_text)
        /\ DOMAIN query_matches = LinesHolding(query_text)

Modes == {"Normal", "Help", "Search"}

\* the mode the claim gives for a key pressed in mode m
ModeAfterKey(m, key) ==
    CASE m = "Normal" /\ key = "/" -> "Search"
      [] m = "Normal" /\ key = "?" -> "Help"
      [] m = "Search" /\ key \in {"Enter", "Esc"} -> "Normal"
      [] m = "Help" /\ key \in {"?", "Esc"} -> "Normal"
      [] OTHER -> m

\* C15: under run_app's key dispatch the mode after a key is: Search after '/'
\* in Normal (with the query text cleared), Normal after Enter in Search (with
\* the search of the query text performed), Normal after Esc in Search, Help
\* after '?' in Normal, Normal after '?' or Esc in Help, and the mode before
\* for every other mode and key; the mode is always Normal, Help or Search.
C15_ModeTransitions ==
    [][/\ mode' \in Modes
       /\ last_op'.name = "key" => mode' = ModeAfterKey(mode, last_op'.ch)
       /\ last_op'.name # "key" => mode' = mode
       /\ (last_op'.name = "key" /\ mode = "Normal" /\ last_op'.ch = "/") =>
              query_text' = <<>>
       /\ (last_op'.name = "key" /\ mode = "Search" /\ last_op'.ch = "Enter") =>
              /\ query_text' = query_text
              /\ {query_match_line_nums'[i] : i \in 1..Len(query_match_line_nums')}
                     = LinesHolding(query_text)]_vars

\* '?' typed into the query text in Search mode, and later '?' pressed in
\* Normal mode opening the help
C15_Witness ==
    /\ last_op.name = "key"
    /\ last_op.ch = "?"
    /\ mode = "Help"
    /\ Contains(query_text, "?")

\* C16: no single operation of App (toggle_help, enter_search_mode,
\* exit_search_mode or any other) takes the mode from Search to Help or from
\* Help to Search; toggle_help only maps Normal and Help to each other and
\* enter_search_mode only Normal to Search.
C16_NoDirectHelpSearch ==
    [][/\ mode = "Search" => mode' # "Help"
       /\ mode = "Help" => mode' # "Search"
       /\ (last_op'.name = "toggle_help" /\ mode' # mode) =>
              {mode, mode'} = {"Normal", "Help"}
       /\ (last_op'.name = "enter_search_mode" /\ mode' # mode) =>
              mode = "Normal"]_vars

\* C17: Esc in Search mode returns the mode to Normal, leaves the query text
\* empty and runs no search: the match lines, the spans, the match index, the
\* "no results" flag and the scroll position stay as they were.
C17_CancelDiscardsQuery ==
    [][(last_op'.name = "key" /\ last_op'.ch = "Esc" /\ mode = "Search") =>
          /\ mode' = "Normal"
          /\ query_text' = <<>>
          /\ UNCHANGED <<query_match_line_nums, query_matches,
                         current_query_match_index, app_state,
                         current_scroll_pos>>]_vars

\* event b is the one sent right after event a, and no tick of a poll cycle
\* comes before an input event of the same or an earlier cycle
SentNext(a, b) ==
    /\ b.seq = a.seq + 1
    /\ b.cycle >= a.cycle
    /\ a.type = "Tick" => b.cycle > a.cycle

\* the last event received and the events in flight, oldest first
ReceivedAndInFlight == <<delivered>> \o event_chan

\* C18: the consumer receives the events in exactly the order the pump thread
\* sent them, none lost and none twice, and within a poll cycle an input event
\* is sent before the tick, so no tick is received ahead of an input event of
\* the same or an earlier poll cycle.
C18_EventsInOrder ==
    [][/\ delivered' # delivered => SentNext(delivered, delivered')
       /\ \A i \in 1..(Len(ReceivedAndInFlight') - 1) :
              SentNext(ReceivedAndInFlight'[i], ReceivedAndInFlight'[i + 1])
       /\ handler' # "dropped" =>
              ReceivedAndInFlight'[Len(ReceivedAndInFlight')].seq = sent_count']_vars

\* a key event of a poll cycle has been received and the tick of the same
\* cycle is the next in flight
C18_Witness ==
    /\ delivered.type = "Key"
    /\ event_chan # <<>>
    /\ Head(event_chan).type = "Tick"
    /\ Head(event_chan).cycle = delivered.cycle

\* C19: dropping the EventHandler sends the shutdown signal and joins the pump
\* thread: with every poll returning, the thread sees the signal at the top of
\* a later cycle and exits, so the drop that has begun comes to its end, and
\* when it has, the pump thread has terminated.
C19_DropJoinsPump ==
    /\ [](handler = "dropped" => PumpDone)
    /\ (handler = "joining" ~> handler = "dropped")

\* the drop has ended after the pump thread left its loop on the signal
C19_Witness ==
    /\ handler = "dropped"
    /\ pump_pc = "shutdown"
    /\ shutdown_chan = 0

\* C20: when the pump thread ends on a poll or read error, the consumer still
\* receives every event sent before, and only then does its receive return the
\* error; run_app returns that error without a panic, and the loop does not
\* wait forever: run_app returns.
C20_PumpFailureSurfaces ==
    /\ [][last_op'.name = "recv_error" =>
              /\ PumpDone
              /\ event_chan = <<>>
              /\ delivered.seq = sent_count
              /\ run_app_result = "Running"
              /\ run_app_result' = "Err"
              /\ ~panicked']_vars
    /\ (pump_pc = "failed" ~> run_app_result \in {"Ok", "Err"})

\* the pump thread failed after sending events, all of them were received, and
\* the receive after them returned the error
C20_Witness ==
    /\ last_op.name = "recv_error"
    /\ pump_pc = "failed"
    /\ delivered.seq = sent_count
    /\ sent_count >= 2
    /\ run_app_result = "Err"

\* the wait the specification describes: max(tick_rate - elapsed, 0), capped
CappedWait(rate, elapsed) ==
    IF rate - elapsed > MAX_POLL_WAIT
    THEN MAX_POLL_WAIT
    ELSE IF rate - elapsed < 0 THEN 0 ELSE rate - elapsed

\* C21: for every tick rate and every elapsed time since the last tick, the
\* timeout a poll call is given is max(tick_rate - elapsed, 0) capped at
\* MAX_POLL_WAIT: never negative and never above MAX_POLL_WAIT.
C21_PollTimeoutCapped ==
    [][(pump_pc = "poll" /\ pump_pc' # "poll") =>
          /\ timeout' = CappedWait(tick_rate, last_op'.amount)
          /\ timeout' >= 0
          /\ timeout' <= MAX_POLL_WAIT]_vars

\* a poll whose tick is further away than MAX_POLL_WAIT waited MAX_POLL_WAIT
C21_Witness ==
    /\ pump_pc = "tick"
    /\ last_op.amount > 0
    /\ tick_rate - last_op.amount > MAX_POLL_WAIT
    /\ timeout = MAX_POLL_WAIT

\* C22: a clear that returns Ok has removed every file and every
\* subdirectory, with all it holds, from the cache directory, and has removed
\* the cache directory itself when nothing was left in it: so for an empty
\* directory, for one with only files, and for one with files and
\* subdirectories.
C22_ClearRemovesAll ==
    clear_pc = "Ok" =>
        /\ \A n \in Names : cache_dir[n].kind \notin {"file", "dir"}
        /\ (\A n \in Names : cache_dir[n].kind = "absent") => ~cache_dir_exists

\* a file and a subdirectory that held a file have been removed, and then the
\* cache directory
C22_Witness ==
    /\ clear_pc = "Ok"
    /\ ~cache_dir_exists
    /\ \E i, j \in 1..Len(main_log) :
          /\ main_log[i][2].kind = "file"
          /\ main_log[j][2].kind = "dir"
          /\ \E n \in Names : main_log[j][2].children[n] = "file"

\* main has done the step
Did(what) == \E i \in 1..Len(main_log) : main_log[i] = what

\* the terminal, the App or the pump thread has been set up
UiStarted == Did("init_tui") \/ constructed \/ handler # "none"

\* C23: loading is cache-first.  After a cache hit nothing is fetched and
\* nothing is written to the cache; after a miss in offline mode main has
\* ended with an error, with no request made and no UI or pump thread started;
\* after a miss online the UI starts only once the text has been fetched and
\* then written to the cache, and a failed fetch or a failed write ends main
\* with an error before the UI starts.
C23_CacheFirst ==
    /\ Did("cache_hit") =>
          ~(Did("fetch_ok") \/ Did("fetch_err") \/ Did("write_ok") \/ Did("write_err"))
    /\ (Did("cache_miss") /\ offline) =>
          /\ main_pc = "Err"
          /\ main_log = <<"cache_miss">>
          /\ ~UiStarted
    /\ (Did("cache_miss") /\ UiStarted) =>
          /\ ~offline
          /\ Len(main_log) >= 4
          /\ SubSeq(main_log, 1, 4) = <<"cache_miss", "fetch_ok", "write_ok", "init_tui">>
          /\ cache_dir[RfcFile].kind = "file"
    /\ (Did("fetch_err") \/ Did("write_err")) =>
          /\ main_pc = "Err"
          /\ ~UiStarted

\* online and not cached: fetched, written to the cache, and the pump started
C23_Witness ==
    /\ main_log = <<"cache_miss", "fetch_ok", "write_ok", "init_tui">>
    /\ ~offline
    /\ handler = "alive"
    /\ constructed

\* what the first entry pattern that matches a right-trimmed line captures
CandidateCaps(line) ==
    IF TOC_ENTRY_PATTERN_0(line).ok
    THEN TOC_ENTRY_PATTERN_0(line)
    ELSE TOC_ENTRY_PATTERN_1(line)

\* the lines strictly after position i that match the locator of caps
LaterMatches(caps, lines, i) ==
    {n \in (i + 1)..(Len(lines) - 1) :
        caps.ok /\ section_regex_is_match(trim(caps.num), trim(caps.title), lines[n + 1])}

\* e is the entry of a candidate with captures caps whose locator matches the
\* lines later
ResolvedFrom(e, caps, later) ==
    /\ caps.ok
    /\ later # {}
    /\ e.title = trim(caps.num) \o <<" ">> \o trim(caps.title)
    /\ e.line_number = Min(later)

\* the candidate at outline position i explains the entry e
ResolvedAt(e, lines, i) ==
    ResolvedFrom(e, CandidateCaps(trim_end(lines[i + 1])),
                 LaterMatches(CandidateCaps(trim_end(lines[i + 1])), lines, i))

\* some outline position from start on explains the entry e
Resolved(e, lines, start) ==
    \E i \in start..(Len(lines) - 1) : ResolvedAt(e, lines, i)

\* C24: every entry of the structured phase comes from a candidate line at an
\* outline position i and has as line_number the first line strictly after i
\* that matches the candidate's locator "<number> <title>", so a candidate no
\* later line matches leaves no entry; with the header on line 4, the entry
\* "1. Introduction .......... 3" on line 5 and the heading on line 40 the
\* outline is the one entry "1. Introduction" at line 40.
C24_LocatorResolvesEntry ==
    (constructed /\ ~heuristic_ran) =>
        /\ \A k \in 1..Len(entries) :
              Resolved(entries[k], Lines(rfc_content), find_toc_start(Lines(rfc_content)))
        /\ rfc_content = Join(DocIntroduction) =>
              entries = <<[title |-> L_1_Introduction, line_number |-> 40]>>

\* the scenario's document has been loaded and its one entry points at line 40
C24_Witness ==
    /\ constructed
    /\ rfc_content = Join(DocIntroduction)
    /\ ~heuristic_ran
    /\ Len(entries) = 1
    /\ entries[1].line_number = 40

\* the candidate at outline position j finds its section
Accepts(lines, j) ==
    LaterMatches(CandidateCaps(trim_end(lines[j + 1])), lines, j) # {}

\* before position i lie n consecutive blank lines of the outline region, and
\* before those a candidate that finds its section
BlankRunBefore(lines, start, i, n) ==
    \E p \in start..(i - n) :
        /\ \A q \in p..(p + n - 1) : trim_end(lines[q + 1]) = <<>>
        /\ \E j \in start..(p - 1) : Accepts(lines, j)

\* every entry comes from an outline position that no run of n blank lines
\* after an accepted entry precedes
NoEntryPast(n, lines, start) ==
    \A k \in 1..Len(entries) :
        \E i \in start..(Len(lines) - 1) :
            /\ ResolvedAt(entries[k], lines, i)
            /\ ~BlankRunBefore(lines, start, i, n)

\* C25 as stated: two consecutive blank lines after an accepted entry end the
\* scan of the outline region, and no line after them contributes an entry.
C25_StopsAtTwoBlankLines ==
    (constructed /\ ~heuristic_ran) =>
        NoEntryPast(2, Lines(rfc_content), find_toc_start(Lines(rfc_content)))

\* C25 amended: five consecutive blank lines after an accepted entry end the
\* scan of the outline region, and no line after them contributes an entry.
C25_StopsAtFiveBlankLines ==
    (constructed /\ ~heuristic_ran) =>
        NoEntryPast(MaxConsecutiveEmptyLines, Lines(rfc_content),
                    find_toc_start(Lines(rfc_content)))

\* the outline entry behind five blank lines was left out, its section being
\* there
C25_Witness ==
    /\ constructed
    /\ rfc_content = Join(DocBlankRun(MaxConsecutiveEmptyLines))
    /\ ~heuristic_ran
    /\ Len(entries) = 1
    /\ Accepts(Lines(rfc_content), 1 + MaxConsecutiveEmptyLines + 1)

\* the first entry comes from one of the first n lines after the header
FirstEntryWithin(n, lines, start) ==
    \E i \in start..Min({start + n - 1, Len(lines) - 1}) :
        ResolvedAt(entries[1], lines, i)

\* C26: the structured phase yields entries only if one of the first 30 lines
\* after the first contents header is accepted as an entry; when none is, it
\* gives up on the 31st line and yields nothing, whatever follows, a second
\* header included.  The 30th line is still examined, and once an entry has
\* been accepted any number of lines without a further entry may follow.
C26_GivesUpAfterThirtyLines ==
    constructed =>
        /\ ~heuristic_ran =>
              FirstEntryWithin(MaxLinesWithoutEntries, Lines(rfc_content),
                               find_toc_start(Lines(rfc_content)))
        /\ rfc_content = Join(DocLateEntry(MaxLinesWithoutEntries - 1)) =>
              /\ ~heuristic_ran
              /\ Len(entries) = 1
        /\ rfc_content = Join(DocLongOutline) =>
              /\ ~heuristic_ran
              /\ Len(entries) = 2
              /\ entries[2].title = L_2B

\* the outline behind the second header was not used: the structured phase
\* gave up and the fallback supplied the entries
C26_Witness ==
    /\ constructed
    /\ rfc_content = Join(DocSecondHeader)
    /\ heuristic_ran
    /\ Accepts(Lines(rfc_content), MaxLinesWithoutEntries + 2)

\* the numbered rule as the specification words it: an ASCII digit first, a
\* '.', and no space before the first '.'
NumberedLine(line) ==
    /\ line # <<>>
    /\ line[1] \in Digits
    /\ \E p \in 1..Len(line) :
          /\ line[p] = "."
          /\ \A q \in 1..(p - 1) : line[q] \notin {".", " "}

\* the right-trimmed line n of the document
TrimmedLine(n) == trim_end(Lines(rfc_content)[n + 1])

\* C27: in the fallback phase every line that starts with an ASCII digit,
\* contains a '.' and has no space before its first '.' is an entry, every
\* entry has its own line's index and text, no line is entered twice, and an
\* entry on a line the numbered rule does not hold of has no numbered line
\* before it.
C27_NumberedRule ==
    (constructed /\ heuristic_ran) =>
        /\ \A n \in 0..(rfc_line_number - 1) :
              NumberedLine(TrimmedLine(n)) =>
                  \E k \in 1..Len(entries) : entries[k].line_number = n
        /\ \A k \in 1..Len(entries) :
              /\ entries[k].line_number \in 0..(rfc_line_number - 1)
              /\ entries[k].title = TrimmedLine(entries[k].line_number)
              /\ k > 1 => entries[k - 1].line_number < entries[k].line_number
              /\ ~NumberedLine(entries[k].title) =>
                    \A n \in 0..(entries[k].line_number - 1) :
                        ~NumberedLine(TrimmedLine(n))

\* an uppercase line was entered before the first numbered line and another
\* one after it was not
C27_Witness ==
    /\ constructed
    /\ heuristic_ran
    /\ rfc_line_number = 3
    /\ Len(entries) = 2
    /\ TrimmedLine(0) = L_ABCD
    /\ NumberedLine(TrimmedLine(1))
    /\ TrimmedLine(2) = L_ABCD

\* the uppercase rule as the specification words it
UppercaseLine(line) == Len(line) > 3 /\ line = to_uppercase(line)

\* C28: in the fallback phase, until a numbered entry has been found, every
\* line the numbered rule does not accept that is fully uppercase and longer
\* than 3 characters is an entry, lines that start with a digit and contain a
\* '.' after a space included.
C28_UppercaseRule ==
    (constructed /\ heuristic_ran) =>
        \A n \in 0..(rfc_line_number - 1) :
            (/\ ~NumberedLine(TrimmedLine(n))
             /\ UppercaseLine(TrimmedLine(n))
             /\ \A m \in 0..(n - 1) : ~NumberedLine(TrimmedLine(m)))
                => \E k \in 1..Len(entries) : entries[k].line_number = n

\* C29: TocPanel::new selects index 0 iff the outline has an entry and nothing
\* otherwise; with nothing selected in an empty outline, next and previous
\* leave the selection as it is, selected_line returns none and
\* jump_to_toc_entry leaves the scroll position as it is.
C29_EmptyOutlineNoSelection ==
    /\ [](last_op.name = "new" => selected = (IF Len(entries) >= 1 THEN 0 ELSE NONE))
    /\ [][(/\ entries = <<>>
            /\ selected = NONE
            /\ last_op'.name \in {"next", "previous", "jump_to_toc_entry"})
              => /\ selected' = NONE
                 /\ TocPanel_selected_line.line = NONE
                 /\ current_scroll_pos' = current_scroll_pos
                 /\ ~panicked']_vars

\* a jump with an empty outline has left a scrolled document where it was
C29_Witness ==
    /\ last_op.name = "jump_to_toc_entry"
    /\ entries = <<>>
    /\ selected = NONE
    /\ current_scroll_pos > 0

\* C30: while the mode is Help, a key event dispatched by run_app changes
\* neither the scroll position, the query text, the match data, the flags (no
\* results, outline shown, run) nor the outline selection; '?' and Esc set the
\* mode to Normal and every other key leaves the mode Help.
C30_HelpReadOnly ==
    [][(mode = "Help" /\ last_op'.name = "key") =>
          /\ UNCHANGED <<current_scroll_pos, query_text, query_match_line_nums,
                         current_query_match_index, query_matches, app_state,
                         selected, entries, rfc_content, rfc_line_number, panicked,
                         run_app_result>>
          /\ mode' = IF last_op'.ch \in {"?", "Esc"} THEN "Normal" ELSE "Help"]_vars

\* 'q' pressed while the help is shown, after a search and with the outline
\* open: the help is still shown and the loop still runs
C30_Witness ==
    /\ mode = "Help"
    /\ last_op.name = "key"
    /\ last_op.ch = "q"
    /\ query_match_line_nums # <<>>
    /\ {"SHOULD_RUN", "SHOW_TOC"} \subseteq app_state

\* how many events of the given types were sent in the current poll cycle
SentInCycle(types) == Cardinality({i \in 1..Len(cycle_sent) : cycle_sent[i] \in types})

\* the step sent an event of one of the given types
Sends(types) ==
    /\ sent_count' = sent_count + 1
    /\ event_chan'[Len(event_chan')].type \in types

\* C31: in each poll cycle the pump sends at most one input event and at most
\* one tick; a tick is sent only when a full tick interval has elapsed since
\* the last tick or the start of the thread, and the tick timer is reset right
\* after it; a terminal event other than a key or a resize is not forwarded.
C31_PumpCycle ==
    /\ [](SentInCycle({"Key", "Resize"}) <= 1 /\ SentInCycle({"Tick"}) <= 1)
    /\ [][/\ Sends({"Tick"}) =>
                /\ pump_pc = "tick"
                /\ last_tick_elapsed >= tick_rate
                /\ last_tick_elapsed' = 0
          /\ Sends({"Key", "Resize"}) =>
                /\ pump_pc = "poll"
                /\ last_op'.ch = event_chan'[Len(event_chan')].type
          /\ (pump_pc = "poll" /\ last_op'.ch \in {"Other", "Timeout"}) =>
                /\ sent_count' = sent_count
                /\ event_chan' = event_chan]_vars

\* after a cycle without a tick, a cycle sent a key event and then the tick
\* that had become due, and the timer was reset
C31_Witness ==
    /\ cycle >= 2
    /\ sent_count = 2
    /\ cycle_sent = <<"Key", "Tick">>
    /\ tick_rate = TickRate
    /\ last_tick_elapsed = 0
    /\ pump_pc = "check"

\* C37: once the shutdown signal has been sent, the pump thread finishes at
\* most the poll cycle it is in: it begins at most one more poll and sends at
\* most two more events, an input event and a tick, and at the top of the loop
\* it takes the signal and exits; no second poll begins while the signal is
\* queued.
C37_ShutdownWithinOneCycle ==
    /\ [](after_signal.polls <= 1 /\ after_signal.events <= 2)
    /\ [][/\ (pump_pc = "poll" /\ pump_pc' # "poll" /\ shutdown_chan > 0) =>
                /\ after_signal.polls = 0
                /\ after_signal'.polls = 1
          /\ (pump_pc = "check" /\ pump_pc' # "check" /\ shutdown_chan > 0) =>
                /\ pump_pc' = "shutdown"
                /\ shutdown_chan' = shutdown_chan - 1
          /\ handler = "joining" =>
                /\ cycle' = cycle
                /\ after_signal'.events - after_signal.events = sent_count' - sent_count
                /\ SentInCycle({"Key", "Resize"}) <= 1
                /\ SentInCycle({"Tick"}) <= 1]_vars

\* the signal was sent while the thread was about to poll; the poll sent a key
\* event, the tick check a tick, and then the thread took the signal and left
C37_Witness ==
    /\ pump_pc = "shutdown"
    /\ shutdown_chan = 0
    /\ after_signal = [polls |-> 1, events |-> 2]
    /\ cycle_sent = <<"Key", "Tick">>

\* C38: dropping the EventHandler after the pump thread has left its loop on
\* a poll or read error is safe: the send of the shutdown signal fails and is
\* ignored (nothing is queued, nothing panics), the join returns, so the drop
\* comes to its end, and the handle is joined once: a dropped handler stays
\* dropped.
C38_DropAfterPumpExit ==
    /\ [][/\ (handler = "alive" /\ handler' # "alive" /\ pump_pc = "failed") =>
                /\ handler' = "joining"
                /\ shutdown_chan' = shutdown_chan
                /\ ~panicked'
                /\ pump_pc' = "failed"
          /\ handler = "dropped" => handler' = "dropped"
          /\ handler' = "dropped" => handler \in {"joining", "dropped"}]_vars
    /\ ((handler = "joining" /\ pump_pc = "failed") ~> handler = "dropped")

\* the pump thread ended on an error, and the drop after it has ended too
C38_Witness ==
    /\ handler = "dropped"
    /\ pump_pc = "failed"
    /\ shutdown_chan = 0
    /\ ~panicked

\* the cache file holds less than the text cache_rfc was given
Truncated == get_cached_rfc.ok /\ get_cached_rfc.text # rfc_content

C33_SearchIdempotent ==
    [][(/\ last_op.name = "perform_search"
        /\ last_op'.name = "perform_search"
        /\ query_text # <<>>) =>
          UNCHANGED <<query_match_line_nums, query_matches,
                      current_query_match_index, app_state,
                      current_scroll_pos>>]_vars

\* perform_search has run twice in a row on a query with several match
\* lines, from a scroll position past the first of them
C33_Witness ==
    /\ last_op = Op("perform_search", 1, "")
    /\ query_text # <<>>
    /\ Len(query_match_line_nums) >= 2
    /\ current_query_match_index >= 1
    /\ current_query_match_index < Len(query_match_line_nums)
    /\ current_scroll_pos = query_match_line_nums[current_query_match_index + 1]

\* C34: in every reachable state, when the "no results" flag is set the match
\* lines and the match spans are empty, whatever searches, submissions of an
\* empty query, advances and resets came before.
C34_NoResultsMeansNoMatches ==
    "HAS_NO_RESULTS" \in app_state =>
        /\ query_match_line_nums = <<>>
        /\ DOMAIN query_matches = {}

\* a search found nothing after an earlier one had found matches and the
\* user had advanced through them
C34_Witness ==
    /\ "HAS_NO_RESULTS" \in app_state
    /\ last_op.name = "perform_search"
    /\ query_text # <<>>
    /\ current_query_match_index >= 1
    /\ query_match_line_nums = <<>>

\* the scroll position is the current match line
OnCurrentMatch ==
    /\ current_query_match_index < Len(query_match_line_nums)
    /\ query_match_line_nums[current_query_match_index + 1] = current_scroll_pos

IsPress(event) == event.type = "Key" /\ event.kind = "Press"

C39_HeuristicOutlineSorted ==
    (constructed /\ heuristic_ran) =>
        /\ entries = parse_toc_heuristic(rfc_content)
        /\ \A i, j \in 1..Len(entries) :
              i < j => entries[i].line_number < entries[j].line_number
        /\ \A n \in 0..(rfc_line_number - 1) :
              /\ Cardinality({k \in 1..Len(entries) : entries[k].line_number = n}) <= 1
              /\ is_title(entries, n) <=>
                    \E k \in 1..Len(entries) : entries[k].line_number = n

\* the fallback phase produced three entries, and not from the first line on
C39_Witness ==
    /\ constructed
    /\ heuristic_ran
    /\ Len(entries) = 3
    /\ entries[1].line_number = 1
    /\ entries[3].line_number = 3
    /\ is_title(entries, 3)
    /\ ~is_title(entries, 0)

\* C40: neither u8 counter of the scan for the outline overflows, whatever
\* follows the contents header: no increment of consecutive_empty_lines or of
\* lines_without_entries passes 255, so the scan neither panics nor goes on
\* with a wrapped counter.
C40_CountersNeverOverflow ==
    /\ ~toc_scan.overflow
    /\ toc_scan.pc # "panicked"
    /\ (toc_scan.pc = "done" /\ Len(toc_scan.lines) <= MaxLinesWithoutEntries + 8) =>
          extract_toc_entries(toc_scan.lines, find_toc_start(toc_scan.lines))
              = [entries |-> toc_scan.entries, overflow |-> FALSE]

\* the scan has ended on a document of more than 256 blank lines after its
\* contents header and no outline entry, stopped by the limit on lines
\* without entries
C40_Witness ==
    /\ toc_scan.pc = "done"
    /\ toc_scan.lines = DocRun(0, FALSE, L_blank)
    /\ Len(toc_scan.lines) > U8Max + 1
    /\ toc_scan.index < Len(toc_scan.lines)
    /\ toc_scan.lines_without_entries = MaxLinesWithoutEntries + 1
    /\ toc_scan.consecutive_empty_lines = MaxLinesWithoutEntries + 1
    /\ toc_scan.entries = <<>>

====
